---- MODULE Spec2Model ----
(***************************************************************************)
(* Verification model of the UCI engine supervisor of pawn-appetit.        *)
(*                                                                         *)
(* SpecProc    : engine/process.rs (EngineProcess state machine, staged    *)
(*               stop, kill) driven by engine/manager.rs (registry of      *)
(*               processes, analysis handlers and supervisor handles).     *)
(* FairSpecProc: SpecProc with the task running stop() kept scheduled.     *)
(* SpecSession : one analysis session of engine/: AnalysisHandler,         *)
(*               EventManager and the iterations of the supervisor loop.   *)
(* SpecLegacy  : chess/commands.rs and chess/manager.rs over the registry  *)
(*               AppState.engine_processes.                                *)
(* SpecReader  : the reader task of chess/manager.rs for one engine.       *)
(* SpecBlob    : db/search.rs over one game record: MoveStream and the     *)
(*               next-move lookups get_move_after_match(_fast).            *)
(* SpecSearch  : search_position of db/search.rs: result cache, request    *)
(*               semaphore and concurrent invocations.                     *)
(* SpecAnalysis: analyze_game of engine/analysis.rs and chess/analysis.rs. *)
(* SpecQueue   : EventManager of engine/events.rs with its EventQueue, fed *)
(*               until the queue overflows.                                *)
(* SpecProgress: the progress computed for an info line.                   *)
(* SpecInit    : the UCI handshake of EngineProcess::new in engine/ and    *)
(*               chess/.                                                   *)
(* SpecConfigure: consecutive EngineProcess::configure calls of engine/.   *)
(* FairSpecSession: SpecSession with the supervisor task always scheduled. *)
(* SpecReach   : the reachability tests a position search prunes with.     *)
(* SpecMatch   : PositionQuery::matches of a Partial query on bitboards.   *)
(* SpecFold    : the parallel workers of a search filling the shared       *)
(*               statistics map.                                           *)
(* SpecCheckpoints: build_position_checkpoints over archives of given      *)
(*               sizes.                                                    *)
(* SpecReuse   : chess get_best_moves on a registered engine, with the     *)
(*               engine's stdin and stdout as queues.                      *)
(***************************************************************************)
EXTENDS Integers, Sequences, FiniteSets, TLC

VARIABLES
    processes,              \* EngineManager.processes : key -> EngineProcess
    analysis_handlers,      \* EngineManager.analysis_handlers (keys present)
    communication_handles,  \* EngineManager.communication_handles (keys present)
    sup,                    \* status of the supervisor task spawned for a key
    lock,                   \* holder of the tokio Mutex around each EngineProcess
    lastTrans,              \* the last transition_state request and its outcome
    api                     \* the UI-facing caller: operation in progress, position, result

VARIABLES
    engine_processes,       \* AppState.engine_processes : key -> chess::EngineProcess
    reader,                 \* the reader task spawned by get_best_moves for a key
    stale,                  \* a reader of an earlier process of the key has yet to end
    lim,                    \* whether the reader task's rate limiter has a cell free
    lpayload,               \* the last BestMovesPayload a reader task emitted
    lcall                   \* the last chess:: command and its effect on the registry

VARIABLES
    moves,                  \* the move blob of the game record under search
    build,                  \* the build profile of the binary (overflow checks on or off)
    stream,                 \* the MoveStream over the blob: index and position
    dbcall                  \* the last db:: call on the blob and what it returned

VARIABLES
    archive,                \* the games of the archive file under search
    line_cache,             \* AppState.line_cache, at the key of the query
    new_request,            \* available permits of AppState.new_request
    searches                \* the invocations of search_position

VARIABLES
    analyze                 \* the invocation of analyze_game

VARIABLES
    emitter,                \* an EventManager fed with numbered payloads, and its last eviction
    reported,               \* the last info line handle_info_message computed a progress for
    handshake,              \* an EngineProcess::new call: its position and what it exchanged
    config,                 \* an EngineProcess under configure calls, and what they sent
    reach                   \* the last reachability test of a query against a position

VARIABLES
    pmatch,                 \* a Partial query, the board it was last tested on and the answer
    fold,                   \* the games of a parallel scan, its workers and the shared openings map
    ckpt,                   \* a build_position_checkpoints call: the archive, its scan and the rows written
    reuse                   \* a chess engine under get_best_moves calls: its pipes, its search, the last final payload

VARIABLES
    handler,                \* AnalysisHandler.state of the session under supervision
    event_manager,          \* the supervisor's PriorityEventManager
    loop,                   \* locals of run_communication_loop
    delivered               \* the BestLines payloads the UI has received, in order

varsP == <<processes, analysis_handlers, communication_handles, sup, lock, lastTrans, api>>
varsL == <<engine_processes, reader, stale, lim, lpayload, lcall>>

varsS == <<handler, event_manager, loop, delivered>>

varsD == <<moves, build, stream, dbcall>>

varsQ == <<archive, line_cache, new_request, searches>>

varsA == <<analyze>>

varsX == <<emitter, reported, handshake, config, reach>>

varsY == <<pmatch, fold, ckpt, reuse>>

varsR == <<varsD, varsQ, varsA, varsX, varsY>>

varsM == <<varsP, varsL, varsS, varsD, varsQ, varsA, varsY>>

varsN == <<varsP, varsL, varsS, varsD, varsQ, varsA, varsX>>

vars == <<varsP, varsL, varsS, varsR>>

-----------------------------------------------------------------------------
(* Keys of the registry: (tab, engine_path).  Tab ids are character        *)
(* sequences; tab "1" is a proper prefix of tab "10".                      *)

TabA == <<1>>
TabB == <<1, 0>>
Tabs == {TabA, TabB}
Engines == {"sf"}
Keys == Tabs \X Engines
NoKey == <<>>

EngineState == {"Idle", "Initializing", "Analyzing", "Stopping", "Terminated"}

NoProc == [state |-> "NoProc"]
NoTrans == [from |-> "-", to |-> "-", err |-> "-", after |-> "-"]

\* A freshly initialised EngineProcess (EngineProcess::new): state Idle, child held.
NewProcess == [state |-> "Idle", child |-> TRUE, alive |-> TRUE,
               searching |-> FALSE, out |-> "none"]

MAX_STOP_RETRIES == 3

-----------------------------------------------------------------------------
(* engine/process.rs                                                       *)

\* Mutant: a transition to the state the engine is already in is accepted.
valid_transition_self(from, to) ==
    \/ from = "Idle" /\ to = "Analyzing"
    \/ from = "Analyzing" /\ to = "Stopping"
    \/ from = "Stopping" /\ to = "Idle"
    \/ from = "Analyzing" /\ to = "Idle"
    \/ to = "Terminated"
    \/ from = to

valid_transition(from, to) ==
    \/ from = "Idle" /\ to = "Analyzing"
    \/ from = "Analyzing" /\ to = "Stopping"
    \/ from = "Stopping" /\ to = "Idle"
    \/ from = "Analyzing" /\ to = "Idle"
    \/ to = "Terminated"

\* Result of transition_state: the process afterwards and the error (or "Ok").
transition_state(p, new) ==
    IF valid_transition(p.state, new)
    THEN [proc |-> [p EXCEPT !.state = new], err |-> "Ok",
          trans |-> [from |-> p.state, to |-> new, err |-> "Ok", after |-> new]]
    ELSE [proc |-> p, err |-> "InvalidTransition",
          trans |-> [from |-> p.state, to |-> new, err |-> "InvalidTransition",
                     after |-> p.state]]

is_running(p) == p.state = "Analyzing"

is_idle(p) == p.state = "Idle"

\* child.try_wait(): exited -> false, running -> true, error -> assumed alive;
\* no child handle -> false.
is_process_alive(p, tryWaitErr) ==
    IF p.child THEN (IF tryWaitErr THEN TRUE ELSE p.alive) ELSE FALSE

\* What a write to the engine's stdin can yield.
WriteOutcomes(p) == IF p.alive THEN {"ok", "io", "pipe"} ELSE {"pipe", "io"}

\* send_stop_command_with_retry: ws[i] is the outcome of the i-th write.
RECURSIVE send_stop_command_with_retry(_, _, _, _)
send_stop_command_with_retry(p, ws, attempt, tryWaitErr) ==
    IF attempt > MAX_STOP_RETRIES THEN "Io"
    ELSE IF ws[attempt] = "ok" THEN "Ok"
    ELSE IF ws[attempt] = "pipe" THEN "BrokenPipe"
    ELSE IF ~is_process_alive(p, tryWaitErr) THEN "BrokenPipe"
    ELSE send_stop_command_with_retry(p, ws, attempt + 1, tryWaitErr)

\* wait_for_state(expected): the caller holds &mut self, so the state cannot
\* change while it polls; it ends Ok iff the state already is the expected one.
wait_for_state(p, expected) == IF p.state = expected THEN "Ok" ELSE "InvalidState"

\* Mutant: stop() without the early return for an engine that is not running.
stop_begin_unguarded(p, tryWaitErr) ==
    IF ~is_process_alive(p, tryWaitErr)
    THEN LET t == transition_state(p, "Idle")
         IN [proc |-> t.proc, next |-> "return", res |-> t.err, trans |-> t.trans, path |-> "dead"]
    ELSE LET t == transition_state(p, "Stopping")
         IN IF t.err = "Ok"
            THEN [proc |-> t.proc, next |-> "st_send", res |-> "-", trans |-> t.trans, path |-> "-"]
            ELSE [proc |-> p, next |-> "return", res |-> t.err, trans |-> t.trans, path |-> "error"]

\* stop(), first part: not running -> Ok; dead process -> Idle; else -> Stopping.
stop_begin(p, tryWaitErr) ==
    IF ~is_running(p)
    THEN [proc |-> p, next |-> "return", res |-> "Ok", trans |-> NoTrans, path |-> "notrunning"]
    ELSE IF ~is_process_alive(p, tryWaitErr)
    THEN LET t == transition_state(p, "Idle")
         IN [proc |-> t.proc, next |-> "return", res |-> t.err, trans |-> t.trans, path |-> "dead"]
    ELSE LET t == transition_state(p, "Stopping")
         IN IF t.err = "Ok"
            THEN [proc |-> t.proc, next |-> "st_send", res |-> "-", trans |-> t.trans, path |-> "-"]
            ELSE [proc |-> p, next |-> "return", res |-> t.err, trans |-> t.trans, path |-> "error"]

\* wait_for_stop_with_fallback, quick phase: send stop, wait 500 ms for Idle.
stop_quick(p, sendRes, tryWaitErr) ==
    IF sendRes # "Ok" /\ ~is_process_alive(p, tryWaitErr)
    THEN LET t == transition_state(p, "Idle")
         IN [proc |-> t.proc, next |-> "st_result", res |-> t.err, trans |-> t.trans, path |-> "senddead"]
    ELSE IF wait_for_state(p, "Idle") = "Ok"
    THEN [proc |-> p, next |-> "st_result", res |-> "Ok", trans |-> NoTrans, path |-> "quick"]
    ELSE [proc |-> p, next |-> "st_fallback", res |-> "-", trans |-> NoTrans, path |-> "-"]

\* wait_for_stop_with_fallback, second phase: resend stop, wait the remaining time.
stop_fallback(p, tryWaitErr) ==
    IF ~is_process_alive(p, tryWaitErr)
    THEN LET t == transition_state(p, "Idle")
         IN [proc |-> t.proc, next |-> "st_result", res |-> t.err, trans |-> t.trans, path |-> "fallbackdead"]
    ELSE IF wait_for_state(p, "Idle") = "Ok"
    THEN [proc |-> p, next |-> "st_result", res |-> "Ok", trans |-> NoTrans, path |-> "fallback"]
    ELSE [proc |-> p, next |-> "st_result", res |-> "StopTimeout", trans |-> NoTrans, path |-> "timeout"]

\* Mutant: the error of wait_for_stop_with_fallback is propagated as it is.
stop_result_propagate(p, waitRes, path) ==
    [proc |-> p, next |-> "return", res |-> waitRes, trans |-> NoTrans,
     path |-> IF waitRes = "Ok" THEN path ELSE "forced"]

\* stop(), the match on wait_for_stop_with_fallback's result.
stop_result(p, waitRes, path) ==
    IF waitRes = "Ok"
    THEN [proc |-> p, next |-> "return", res |-> "Ok", trans |-> NoTrans, path |-> path]
    ELSE IF ~is_idle(p)
    THEN LET t == transition_state(p, "Idle")
         IN [proc |-> t.proc, next |-> "return", res |-> t.err, trans |-> t.trans, path |-> "forced"]
    ELSE [proc |-> p, next |-> "return", res |-> "Ok", trans |-> NoTrans, path |-> "forced"]

\* Mutant: kill() without taking and killing the child.
kill_state_only(p) ==
    LET t == transition_state(p, "Terminated")
    IN [proc |-> t.proc, res |-> "Ok", trans |-> t.trans]

\* kill(): transition to Terminated (a failure is only logged), quit, take and
\* kill the child, wait for it.
kill(p) ==
    LET t == transition_state(p, "Terminated")
    IN [proc |-> [t.proc EXCEPT !.child = FALSE, !.alive = FALSE, !.searching = FALSE],
        res |-> "Ok", trans |-> t.trans]

\* handle_bestmove(): transition to Idle.
handle_bestmove(p) == transition_state(p, "Idle")

\* EngineProcess::start_analysis: requires Idle, transitions to Analyzing, then
\* writes the go command.
process_start_analysis(p, w) ==
    IF ~is_idle(p)
    THEN [proc |-> p, res |-> "InvalidState", trans |-> NoTrans]
    ELSE LET t == transition_state(p, "Analyzing")
         IN IF t.err # "Ok" THEN [proc |-> p, res |-> t.err, trans |-> t.trans]
            ELSE IF w = "ok"
            THEN [proc |-> [t.proc EXCEPT !.searching = TRUE], res |-> "Ok", trans |-> t.trans]
            ELSE [proc |-> t.proc, res |-> (IF w = "pipe" THEN "BrokenPipe" ELSE "Io"),
                  trans |-> t.trans]

-----------------------------------------------------------------------------
(* engine/manager.rs                                                       *)

Attempts == 1..3

\* The retry loops of EngineManager::start_analysis around EngineProcess::new
\* and configure: rs[i] is the outcome of attempt i; the first success ends the loop.
retry_three(rs) == IF \E i \in Attempts : rs[i] = "ok" THEN "Ok" ELSE "Err"

\* The retry loop around EngineProcess::start_analysis: ws[i] is the outcome of
\* the go write of attempt i.
RECURSIVE start_with_retry(_, _, _, _)
start_with_retry(p, ws, attempt, tr) ==
    LET r == process_start_analysis(p, ws[attempt])
        t == IF r.trans = NoTrans THEN tr ELSE r.trans
    IN IF r.res = "Ok" \/ attempt = 3
       THEN [proc |-> r.proc, res |-> r.res, trans |-> t]
       ELSE start_with_retry(r.proc, ws, attempt + 1, t)

Upd(tr) == IF tr = NoTrans THEN lastTrans ELSE tr

Call(op, k, tab, pc) ==
    [pc |-> pc, op |-> op, key |-> k, tab |-> tab, todo |-> {}, affected |-> {},
     result |-> "-", found |-> FALSE, path |-> "-", werr |-> "-", stopRes |-> "-",
     prevOp |-> api.op, prevKey |-> api.key, prevOk |-> (api.result = "Ok")]

Done(a, res) == [a EXCEPT !.pc = "done", !.result = res]

\* Mutant: the process is removed only together with a supervisor handle.
cleanup_engine_with_handle(k) ==
    /\ communication_handles' = communication_handles \ {k}
    /\ sup' = [sup EXCEPT ![k] =
                 IF k \in communication_handles /\ @ = "running" THEN "aborted" ELSE @]
    /\ processes' = [processes EXCEPT ![k] =
                       IF k \in communication_handles THEN NoProc ELSE @]
    /\ analysis_handlers' = analysis_handlers \ {k}

\* Mutant: the supervisor handle is dropped without aborting the loop.
cleanup_engine_no_abort(k) ==
    /\ communication_handles' = communication_handles \ {k}
    /\ sup' = sup
    /\ processes' = [processes EXCEPT ![k] = NoProc]
    /\ analysis_handlers' = analysis_handlers \ {k}

\* cleanup_engine(key): drop the supervisor handle (aborting a loop that still
\* runs), the process and the analysis handler.
cleanup_engine(k) ==
    /\ communication_handles' = communication_handles \ {k}
    /\ sup' = [sup EXCEPT ![k] =
                 IF k \in communication_handles /\ @ = "running" THEN "aborted" ELSE @]
    /\ processes' = [processes EXCEPT ![k] = NoProc]
    /\ analysis_handlers' = analysis_handlers \ {k}

\* The keys kill_engines_for_tab collects: entry.key().0 == tab.
keys_for_tab(tab) == {k \in Keys : processes[k] # NoProc /\ k[1] = tab}

\* kill_engine, first part: remove and abort the supervisor handle, then lock
\* the process if it is registered.  Also the entry of start_analysis when the
\* key is already registered.
kill_engine_begin(k) ==
    /\ communication_handles' = communication_handles \ {k}
    /\ sup' = [sup EXCEPT ![k] =
                 IF k \in communication_handles /\ @ = "running" THEN "aborted" ELSE @]
    /\ IF processes[k] # NoProc
       THEN /\ lock[k] = "free"
            /\ lock' = [lock EXCEPT ![k] = "api"]
            /\ api' = [api EXCEPT !.pc = "st_begin"]
       ELSE /\ api' = [api EXCEPT !.pc = "ke_cleanup"]
            /\ UNCHANGED lock
    /\ UNCHANGED <<processes, analysis_handlers, lastTrans>>

\* stop_engine: lock the registered process and run stop(); unknown key -> Ok.
stop_engine_begin(k) ==
    IF processes[k] # NoProc
    THEN /\ lock[k] = "free"
         /\ lock' = [lock EXCEPT ![k] = "api"]
         /\ api' = [Call("stop_engine", k, k[1], "st_begin") EXCEPT !.found = TRUE]
    ELSE /\ api' = Done(Call("stop_engine", k, k[1], "done"), "Ok")
         /\ UNCHANGED lock

\* Mutant: stop_engine also drops the handler and the supervisor handle.
stop_engine_end_remove(k, res, path) ==
    /\ lock' = [lock EXCEPT ![k] = "free"]
    /\ api' = Done([api EXCEPT !.path = path, !.stopRes = res], res)
    /\ analysis_handlers' = analysis_handlers \ {k}
    /\ communication_handles' = communication_handles \ {k}
    /\ sup' = [sup EXCEPT ![k] = IF @ = "running" THEN "aborted" ELSE @]

\* stop_engine after stop() returned: the guard is dropped, Err is propagated;
\* the registry is left as it is.
stop_engine_end(k, res, path) ==
    /\ lock' = [lock EXCEPT ![k] = "free"]
    /\ api' = Done([api EXCEPT !.path = path, !.stopRes = res], res)
    /\ UNCHANGED <<analysis_handlers, communication_handles, sup>>

CallStartAnalysis(k) ==
    /\ api.pc = "done"
    /\ api' = Call("start_analysis", k, k[1],
                   IF processes[k] # NoProc THEN "ke_begin" ELSE "sa_new")
    /\ UNCHANGED <<processes, analysis_handlers, communication_handles, sup, lock, lastTrans>>

CallStopEngine(k) ==
    /\ api.pc = "done"
    /\ stop_engine_begin(k)
    /\ UNCHANGED <<processes, analysis_handlers, communication_handles, sup, lastTrans>>

CallKillEngine(k) ==
    /\ api.pc = "done"
    /\ api' = Call("kill_engine", k, k[1], "ke_begin")
    /\ UNCHANGED <<processes, analysis_handlers, communication_handles, sup, lock, lastTrans>>

CallKillEnginesForTab(tab) ==
    /\ api.pc = "done"
    /\ api' = [Call("kill_engines_for_tab", NoKey, tab, "kt_loop")
                 EXCEPT !.todo = keys_for_tab(tab), !.affected = keys_for_tab(tab)]
    /\ UNCHANGED <<processes, analysis_handlers, communication_handles, sup, lock, lastTrans>>

KillEngineBegin ==
    /\ api.pc = "ke_begin"
    /\ kill_engine_begin(api.key)

\* One phase of stop() applied to the locked process of api.key.
ApplyStop(r) ==
    /\ processes' = [processes EXCEPT ![api.key] = r.proc]
    /\ lastTrans' = Upd(r.trans)
    /\ IF r.next = "return"
       THEN IF api.op = "stop_engine"
            THEN stop_engine_end(api.key, r.res, r.path)
            ELSE /\ api' = [api EXCEPT !.pc = "ke_kill", !.path = r.path, !.stopRes = r.res]
                 /\ UNCHANGED <<analysis_handlers, communication_handles, sup, lock>>
       ELSE /\ api' = [api EXCEPT !.pc = r.next, !.werr = r.res, !.path = r.path]
            /\ UNCHANGED <<analysis_handlers, communication_handles, sup, lock>>

StopBegin ==
    /\ api.pc = "st_begin"
    /\ \E tw \in BOOLEAN : ApplyStop(stop_begin(processes[api.key], tw))

StopSend ==
    /\ api.pc = "st_send"
    /\ LET p == processes[api.key]
       IN \E ws \in [1..MAX_STOP_RETRIES -> WriteOutcomes(p)], tw \in BOOLEAN :
            ApplyStop(stop_quick(p, send_stop_command_with_retry(p, ws, 1, tw), tw))

StopFallback ==
    /\ api.pc = "st_fallback"
    /\ \E tw \in BOOLEAN : ApplyStop(stop_fallback(processes[api.key], tw))

StopResult ==
    /\ api.pc = "st_result"
    /\ ApplyStop(stop_result(processes[api.key], api.werr, api.path))

StopStep == StopBegin \/ StopSend \/ StopFallback \/ StopResult

\* kill_engine, second part: force kill after the graceful stop, drop the guard.
KillEngineKill ==
    /\ api.pc = "ke_kill"
    /\ LET r == kill(processes[api.key])
       IN /\ processes' = [processes EXCEPT ![api.key] = r.proc]
          /\ lastTrans' = Upd(r.trans)
    /\ lock' = [lock EXCEPT ![api.key] = "free"]
    /\ api' = [api EXCEPT !.pc = "ke_cleanup"]
    /\ UNCHANGED <<analysis_handlers, communication_handles, sup>>

\* kill_engine, last part: cleanup_engine and Ok; start_analysis goes on to spawn.
KillEngineCleanup ==
    /\ api.pc = "ke_cleanup"
    /\ cleanup_engine(api.key)
    /\ api' = IF api.op = "kill_engine" THEN Done(api, "Ok") ELSE [api EXCEPT !.pc = "sa_new"]
    /\ UNCHANGED <<lock, lastTrans>>

\* start_analysis after the old engine is gone: spawn and initialise the
\* process (3 tries); the error of the last try is returned.
StartSpawn ==
    /\ api.pc = "sa_new"
    /\ \E rs \in [Attempts -> {"ok", "err"}] :
         api' = IF retry_three(rs) = "Ok" THEN [api EXCEPT !.pc = "sa_configure"]
                ELSE Done(api, "InitTimeout")
    /\ UNCHANGED <<processes, analysis_handlers, communication_handles, sup, lock, lastTrans>>

\* start_analysis: configure (3 tries).
StartConfigure ==
    /\ api.pc = "sa_configure"
    /\ \E cs \in [Attempts -> {"ok", "err"}] :
         api' = IF retry_three(cs) = "Ok" THEN [api EXCEPT !.pc = "sa_start"]
                ELSE Done(api, "Io")
    /\ UNCHANGED <<processes, analysis_handlers, communication_handles, sup, lock, lastTrans>>

\* start_analysis: start (3 tries); on success register process, handler and
\* supervisor and return Ok(None); on failure return the error.
StartGo ==
    /\ api.pc = "sa_start"
    /\ \E ws \in [Attempts -> WriteOutcomes(NewProcess)] :
         LET r == start_with_retry(NewProcess, ws, 1, NoTrans)
             k == api.key
         IN /\ lastTrans' = Upd(r.trans)
            /\ api' = Done(api, r.res)
            /\ IF r.res = "Ok"
               THEN /\ processes' = [processes EXCEPT ![k] = r.proc]
                    /\ analysis_handlers' = analysis_handlers \cup {k}
                    /\ communication_handles' = communication_handles \cup {k}
                    /\ sup' = [sup EXCEPT ![k] = "running"]
               ELSE UNCHANGED <<processes, analysis_handlers, communication_handles, sup>>
    /\ UNCHANGED lock

\* kill_engines_for_tab, loop head: done when no key is left; else kill the
\* next key's process under its lock.
KillTabLoop ==
    /\ api.pc = "kt_loop"
    /\ IF api.todo = {}
       THEN /\ api' = Done(api, "Ok")
            /\ UNCHANGED <<processes, lastTrans>>
       ELSE \E k \in api.todo :
              /\ lock[k] = "free"
              /\ api' = [api EXCEPT !.pc = "kt_cleanup", !.key = k]
              /\ IF processes[k] # NoProc
                 THEN LET r == kill(processes[k])
                      IN /\ processes' = [processes EXCEPT ![k] = r.proc]
                         /\ lastTrans' = Upd(r.trans)
                 ELSE UNCHANGED <<processes, lastTrans>>
    /\ UNCHANGED <<analysis_handlers, communication_handles, sup, lock>>

KillTabCleanup ==
    /\ api.pc = "kt_cleanup"
    /\ cleanup_engine(api.key)
    /\ api' = [api EXCEPT !.pc = "kt_loop", !.todo = @ \ {api.key}]
    /\ UNCHANGED <<lock, lastTrans>>

\* run_communication_loop reads bestmove: handle_bestmove under the process
\* lock (a failed transition is only logged), then the loop ends with Ok.
SupBestmove(k) ==
    /\ sup[k] = "running"
    /\ processes[k] # NoProc
    /\ lock[k] = "free"
    /\ processes[k].out = "bestmove"
    /\ LET t == handle_bestmove(processes[k])
       IN /\ processes' = [processes EXCEPT ![k] = [t.proc EXCEPT !.out = "none"]]
          /\ lastTrans' = Upd(t.trans)
    /\ sup' = [sup EXCEPT ![k] = "finished"]
    /\ UNCHANGED <<analysis_handlers, communication_handles, lock, api>>

\* run_communication_loop ends with an error (too many consecutive failures).
SupFail(k) ==
    /\ sup[k] = "running"
    /\ sup' = [sup EXCEPT ![k] = "failed"]
    /\ UNCHANGED <<processes, analysis_handlers, communication_handles, lock, lastTrans, api>>

\* The engine subprocess prints bestmove (search finished, or stop obeyed).
EngineBestmove(k) ==
    /\ processes[k] # NoProc
    /\ processes[k].alive /\ processes[k].searching /\ processes[k].out = "none"
    /\ processes' = [processes EXCEPT ![k] = [@ EXCEPT !.out = "bestmove", !.searching = FALSE]]
    /\ UNCHANGED <<analysis_handlers, communication_handles, sup, lock, lastTrans, api>>

\* The engine subprocess exits on its own.
EngineDie(k) ==
    /\ processes[k] # NoProc
    /\ processes[k].alive
    /\ processes' = [processes EXCEPT ![k] = [@ EXCEPT !.alive = FALSE, !.searching = FALSE]]
    /\ UNCHANGED <<analysis_handlers, communication_handles, sup, lock, lastTrans, api>>

-----------------------------------------------------------------------------
(* chess/: the engine code the UI commands are wired to.                   *)

\* Positions by their number of legal moves (chess/process.rs set_options).
Positions == {"mate", "open"}
legal_moves(pos) == IF pos = "mate" THEN 0 ELSE 20

MaxMultiPV == 2
MaxDepth == 2
TargetDepth == 2

EngineOptions == [pos : Positions, multipv : 1..MaxMultiPV]
GoModes == {"Depth", "Infinite"}
NoPayload == [kind |-> "none"]
NoCall == [op |-> "none", tab |-> NoKey, before |-> {}, after |-> {}, result |-> "-"]

Min(a, b) == IF a < b THEN a ELSE b

\* Progress is kept in hundredths of a percent: 100.0 is 10000, 99.99 is 9999.
Full == 10000

Registry == {k \in Keys : engine_processes[k] # NoProc}

\* String::starts_with on tab ids.
starts_with(s, prefix) ==
    Len(prefix) <= Len(s) /\ SubSeq(s, 1, Len(prefix)) = prefix

\* chess::EngineProcess::new
chess_new ==
    [running |-> FALSE, real_multipv |-> 0, last_depth |-> 0, best_moves |-> <<>>,
     last_best_moves |-> <<>>, last_progress |-> 0, options |-> [pos |-> "open", multipv |-> 1],
     go_mode |-> "Infinite"]

\* chess::EngineProcess::set_options
chess_set_options(p, options) ==
    [p EXCEPT !.real_multipv = Min(options.multipv, legal_moves(options.pos)),
              !.last_depth = 0, !.options = options,
              !.best_moves = <<>>, !.last_best_moves = <<>>]

\* chess::EngineProcess::go
chess_go(p, mode) == [p EXCEPT !.go_mode = mode, !.running = TRUE]

\* chess::EngineProcess::stop
chess_stop(p) == [p EXCEPT !.running = FALSE]

\* The progress the reader task computes for an info line.
chess_progress(p, cur_depth) ==
    IF p.go_mode = "Depth" THEN (cur_depth * Full) \div TargetDepth ELSE Full - 1

\* The child of the key's registered process runs as long as its stdout is open.
chess_alive(k) == reader[k] = "running"

Called(op, tab, res) ==
    lcall' = [op |-> op, tab |-> tab, before |-> Registry,
              after |-> {k \in Keys : engine_processes'[k] # NoProc}, result |-> res]

\* get_best_moves, key not registered: spawn, configure, go, register, spawn reader.
GetBestMovesNew(k, options, mode) ==
    /\ engine_processes[k] = NoProc
    /\ \E spawned \in BOOLEAN :
         IF spawned
         THEN /\ engine_processes' = [engine_processes EXCEPT ![k] =
                     chess_go(chess_set_options(chess_new, options), mode)]
              /\ stale' = [stale EXCEPT ![k] = @ \/ reader[k] # "none"]
              /\ reader' = [reader EXCEPT ![k] = "running"]
              /\ lim' = [lim EXCEPT ![k] = TRUE]
              /\ Called("get_best_moves", k[1], "Ok")
         ELSE /\ UNCHANGED <<engine_processes, reader, stale, lim>>
              /\ Called("get_best_moves", k[1], "Err")
    /\ UNCHANGED lpayload

\* get_best_moves, key registered: cached answer, or stop, set_options, go.
GetBestMovesReuse(k, options, mode) ==
    /\ engine_processes[k] # NoProc
    /\ LET p == engine_processes[k] IN
         IF options = p.options /\ mode = p.go_mode /\ p.running
         THEN /\ UNCHANGED engine_processes
              /\ Called("get_best_moves", k[1], "Cached")
         ELSE IF chess_alive(k)
         THEN /\ engine_processes' = [engine_processes EXCEPT ![k] =
                     chess_go(chess_set_options(chess_stop(p), options), mode)]
              /\ Called("get_best_moves", k[1], "Ok")
         ELSE /\ UNCHANGED engine_processes
              /\ Called("get_best_moves", k[1], "Err")
    /\ UNCHANGED <<reader, stale, lim, lpayload>>

\* The reader task on an info line.
ReaderInfo(k, cur_depth, multipv) ==
    /\ reader[k] = "running" /\ engine_processes[k] # NoProc
    /\ LET p == engine_processes[k] IN
         IF multipv = Len(p.best_moves) + 1
         THEN LET pushed == Append(p.best_moves, cur_depth) IN
              IF multipv = p.real_multipv
              THEN IF (\A i \in 1..Len(pushed) : pushed[i] = cur_depth)
                       /\ cur_depth >= p.last_depth /\ lim[k]
                   THEN /\ lpayload' = [kind |-> "info", best_lines |-> pushed,
                                        progress |-> chess_progress(p, cur_depth),
                                        real_multipv |-> p.real_multipv]
                        /\ \E more \in BOOLEAN : lim' = [lim EXCEPT ![k] = more]
                        /\ engine_processes' = [engine_processes EXCEPT ![k] =
                              [p EXCEPT !.last_depth = cur_depth, !.last_best_moves = pushed,
                                        !.last_progress = chess_progress(p, cur_depth),
                                        !.best_moves = <<>>]]
                   ELSE /\ engine_processes' = [engine_processes EXCEPT ![k].best_moves = <<>>]
                        /\ UNCHANGED <<lim, lpayload>>
              ELSE /\ engine_processes' = [engine_processes EXCEPT ![k].best_moves = pushed]
                   /\ UNCHANGED <<lim, lpayload>>
         ELSE UNCHANGED <<engine_processes, lim, lpayload>>
    /\ UNCHANGED <<reader, stale, lcall>>

\* The reader task on the bestmove line.
ReaderBestMove(k) ==
    /\ reader[k] = "running" /\ engine_processes[k] # NoProc
    /\ lpayload' = [kind |-> "final", best_lines |-> engine_processes[k].last_best_moves,
                    progress |-> Full, real_multipv |-> engine_processes[k].real_multipv]
    /\ engine_processes' = [engine_processes EXCEPT ![k].last_progress = Full]
    /\ UNCHANGED <<reader, stale, lim, lcall>>

\* The limiter (burst 5, one cell per 200 ms) frees a cell as time passes.
LimRefill(k) ==
    /\ reader[k] = "running" /\ ~lim[k]
    /\ lim' = [lim EXCEPT ![k] = TRUE]
    /\ UNCHANGED <<engine_processes, reader, stale, lpayload, lcall>>

\* The engine exits by itself: its stdout closes.
EngineExit(k) ==
    /\ reader[k] = "running" /\ engine_processes[k] # NoProc
    /\ reader' = [reader EXCEPT ![k] = "eof"]
    /\ UNCHANGED <<engine_processes, stale, lim, lpayload, lcall>>

\* The reader task after the end of the stream: engines_map.remove(&key).
\* engines_map is `self.state.engine_processes.clone()`, and the field is a
\* DashMap, not an Arc of one: the task works on its own copy of the map,
\* taken when it was spawned, and the registry in AppState is not changed.
ReaderEnd(k) ==
    /\ \/ reader[k] = "eof" /\ reader' = [reader EXCEPT ![k] = "none"] /\ UNCHANGED stale
       \/ stale[k] /\ stale' = [stale EXCEPT ![k] = FALSE] /\ UNCHANGED reader
    /\ UNCHANGED <<engine_processes, lim, lpayload, lcall>>

\* The registry and the readers after the processes of `ks` were killed and removed.
chess_remove(ks) ==
    /\ engine_processes' = [k \in Keys |-> IF k \in ks THEN NoProc ELSE engine_processes[k]]
    /\ reader' = [k \in Keys |->
                    IF k \in ks /\ engine_processes[k] # NoProc /\ reader[k] = "running"
                    THEN "eof" ELSE reader[k]]

\* The tabs kill_engines(tab) selects.
chess_selected(key_tab, tab) == starts_with(key_tab, tab)

\* chess/commands.rs kill_engines
chess_kill_engines(tab) ==
    /\ chess_remove({k \in Registry : chess_selected(k[1], tab)})
    /\ Called("kill_engines", tab, "Ok")
    /\ UNCHANGED <<stale, lim, lpayload>>

\* chess/commands.rs kill_engine
chess_kill_engine(k) ==
    /\ chess_remove({k})
    /\ Called("kill_engine", k[1], "Ok")
    /\ UNCHANGED <<stale, lim, lpayload>>

\* chess/commands.rs stop_engine
chess_stop_engine(k) ==
    /\ IF engine_processes[k] # NoProc /\ chess_alive(k)
       THEN engine_processes' = [engine_processes EXCEPT ![k] = chess_stop(@)]
       ELSE UNCHANGED engine_processes
    /\ Called("stop_engine", k[1],
              IF engine_processes[k] # NoProc /\ ~chess_alive(k) THEN "Err" ELSE "Ok")
    /\ UNCHANGED <<reader, stale, lim, lpayload>>

InitLegacyVars ==
    /\ engine_processes = [k \in Keys |-> NoProc]
    /\ reader = [k \in Keys |-> "none"]
    /\ stale = [k \in Keys |-> FALSE]
    /\ lim = [k \in Keys |-> TRUE]
    /\ lpayload = NoPayload
    /\ lcall = NoCall

-----------------------------------------------------------------------------
(* engine/communication.rs, engine/events.rs and the supervisor loop of    *)
(* engine/manager.rs for one analysis session.                             *)

MaxInfos == 3
MAX_CONSECUTIVE_ERRORS == 5
max_queue_size == 10

SessionKey == <<TabA, "sf">>

\* Whole seconds since the search started, as calculate_progress sees them.
Secs == {0, 60}

\* (a as f64 / b as f64) * 100.0 in hundredths of a percent; a division by
\* zero gives an infinity, or a NaN when a is zero too.
f64_percent(a, b) ==
    IF b # 0 THEN [class |-> "finite", value |-> (a * Full) \div b]
    ELSE IF a # 0 THEN [class |-> "inf", value |-> 0]
    ELSE [class |-> "nan", value |-> 0]

\* calculate_progress; go_mode is a GoMode with its target, elapsed is in ms.
calculate_progress(go_mode, depth, nodes, elapsed) ==
    CASE go_mode.kind = "Depth" -> f64_percent(depth, go_mode.target)
      [] go_mode.kind = "Time" -> f64_percent(elapsed, go_mode.target)
      [] go_mode.kind = "Nodes" -> f64_percent(nodes, go_mode.target)
      [] go_mode.kind = "PlayersTime" ->
             [class |-> "finite", value |-> Min((depth * Full) \div 20, Full - 100)]
      [] OTHER ->
             [class |-> "finite",
              value |-> Min(((elapsed \div 1000) * Full) \div 30, Full - 100)]

\* AnalysisHandler::process_info_message on a line of depth cur_depth and
\* index multipv; lines are kept by their depth, out = << >> stands for None.
process_info_message(h, cur_depth, multipv) ==
    IF h.real_multipv = 1
    THEN [h |-> [h EXCEPT !.last_best_moves = <<cur_depth>>, !.last_depth = cur_depth],
          out |-> <<cur_depth>>]
    ELSE IF multipv = Len(h.best_moves) + 1
    THEN LET pushed == Append(h.best_moves, cur_depth) IN
         IF multipv = h.real_multipv
         THEN IF (\A i \in 1..Len(pushed) : pushed[i] = cur_depth) /\ cur_depth >= h.last_depth
              THEN [h |-> [h EXCEPT !.last_best_moves = pushed,
                                    !.last_depth = IF cur_depth > @ THEN cur_depth ELSE @,
                                    !.best_moves = <<>>],
                    out |-> pushed]
              ELSE [h |-> [h EXCEPT !.best_moves = <<>>], out |-> <<>>]
         ELSE [h |-> [h EXCEPT !.best_moves = pushed], out |-> <<>>]
    ELSE [h |-> [h EXCEPT !.best_moves = IF multipv = 1 THEN <<cur_depth>> ELSE <<>>],
          out |-> <<>>]

\* EventQueue::queue_event
queue_event(q, e) ==
    IF Len(q) >= max_queue_size THEN Append(Tail(q), e) ELSE Append(q, e)

\* EventManager::emit_best_moves; ok: the UI accepts the event, more: the rate
\* limiter still has a cell free after a successful check.
emit_best_moves(m, payload, force_immediate, ok, more) ==
    LET checked == ~force_immediate /\ m.first_result_sent
        should_emit_immediately == force_immediate \/ ~m.first_result_sent \/ m.free
        m1 == IF checked /\ m.free THEN [m EXCEPT !.free = more] ELSE m
    IN IF should_emit_immediately
       THEN IF ok
            THEN [em |-> [m1 EXCEPT !.first_result_sent = TRUE], sent |-> <<payload>>,
                  res |-> "true"]
            ELSE [em |-> [m1 EXCEPT !.queue = queue_event(@, payload)], sent |-> <<>>,
                  res |-> "Err"]
       ELSE [em |-> [m1 EXCEPT !.queue = queue_event(@, payload)], sent |-> <<>>,
             res |-> "false"]

\* EventManager::flush_pending_events: the outcomes of the loop over the queue.
\* The first n queued payloads are sent; the next one, refused by the limiter
\* or by the UI, is put back at the back of the queue.
flush_pending_events(m) ==
    LET q == m.queue IN
    IF q = <<>> THEN {[em |-> m, sent |-> <<>>]}
    ELSE IF ~m.free
    THEN {[em |-> [m EXCEPT !.queue = Append(Tail(q), Head(q))], sent |-> <<>>]}
    ELSE {[em |-> [m EXCEPT !.free = more,
                            !.queue = IF n = Len(q) THEN <<>>
                                      ELSE Append(SubSeq(q, n + 2, Len(q)), q[n + 1])],
           sent |-> SubSeq(q, 1, n)] : n \in 0..Len(q), more \in BOOLEAN}

\* PriorityEventManager::emit_with_priority under EmissionStrategy::RateLimited.
emit_with_priority(m, payload, high, elapsed, ok, more) ==
    LET force_immediate == high /\ (~m.last_emit_time \/ elapsed)
        m1 == IF force_immediate THEN [m EXCEPT !.last_emit_time = TRUE] ELSE m
    IN emit_best_moves(m1, payload, force_immediate, ok, more)

LoopRunning == loop.status = "running" /\ loop.consecutive_errors < MAX_CONSECUTIVE_ERRORS

\* The read of an iteration can yield a line or an error: the engine's
\* stdout has not reached its end.  At the end of the stream next_line
\* returns Ok(None) at once, which read_line passes on as it does a timeout.
LoopReads == LoopRunning /\ ~loop.eof

\* One iteration of run_communication_loop that reads an info line.
LoopInfo(cur_depth, multipv) ==
    /\ LoopReads /\ loop.infos < MaxInfos
    /\ \E f \in flush_pending_events(event_manager), refill \in BOOLEAN, elapsed \in BOOLEAN,
          ok \in BOOLEAN, more \in BOOLEAN, secs \in Secs :
         LET r == process_info_message(handler, cur_depth, multipv)
             progress == calculate_progress([kind |-> loop.go_mode, target |-> TargetDepth],
                                            cur_depth, 0, secs * 1000).value
             payload == [id |-> loop.infos + 1, kind |-> "info", best_lines |-> r.out,
                         progress |-> progress]
             m == [f.em EXCEPT !.free = @ \/ refill]
             e == emit_with_priority(m, payload, ~loop.first_result_sent, elapsed, ok, more)
         IN IF r.out = <<>>
            THEN /\ handler' = r.h
                 /\ event_manager' = f.em
                 /\ delivered' = delivered \o f.sent
                 /\ loop' = [loop EXCEPT !.consecutive_errors = 0, !.infos = @ + 1]
            ELSE /\ handler' = [r.h EXCEPT !.last_progress = progress]
                 /\ event_manager' = e.em
                 /\ delivered' = delivered \o f.sent \o e.sent
                 /\ loop' = [loop EXCEPT
                       !.consecutive_errors = IF e.res = "Err" THEN 1 ELSE 0,
                       !.first_result_sent = @ \/ e.res = "true",
                       !.infos = @ + 1]
    /\ UNCHANGED <<varsP, varsL, varsR>>

\* One iteration that reads bestmove: handle_bestmove, emit_final_result, break.
LoopBestMove ==
    /\ LoopReads
    /\ \E f \in flush_pending_events(event_manager), ok \in BOOLEAN :
         LET t == handle_bestmove(processes[SessionKey])
             payload == [id |-> loop.infos + 1, kind |-> "final",
                         best_lines |-> handler.last_best_moves, progress |-> Full]
         IN /\ processes' = [processes EXCEPT ![SessionKey] = t.proc]
            /\ lastTrans' = Upd(t.trans)
            /\ event_manager' = f.em
            /\ delivered' = delivered \o f.sent \o
                  (IF Len(handler.last_best_moves) = 0 \/ ~ok THEN <<>> ELSE <<payload>>)
    /\ loop' = [loop EXCEPT !.status = "finished", !.consecutive_errors = 0, !.result = "Ok"]
    /\ sup' = [sup EXCEPT ![SessionKey] = "finished"]
    /\ UNCHANGED <<analysis_handlers, communication_handles, lock, api, handler, varsL, varsR>>

\* One iteration whose read times out, finds the stream at its end or
\* yields a line of another kind.
LoopIdle ==
    /\ LoopRunning
    /\ \E f \in flush_pending_events(event_manager) :
         /\ event_manager' = f.em
         /\ delivered' = delivered \o f.sent
    /\ loop' = [loop EXCEPT !.consecutive_errors = 0]
    /\ UNCHANGED <<handler, varsP, varsL, varsR>>

\* Mutant: a broken pipe ends the loop whatever the count.
LoopReadError_pipe_ends(broken_pipe) ==
    /\ LoopReads
    /\ \E f \in flush_pending_events(event_manager) :
         /\ event_manager' = f.em
         /\ delivered' = delivered \o f.sent
    /\ loop' = [loop EXCEPT
          !.consecutive_errors = @ + 1,
          !.status = IF broken_pipe THEN "failed" ELSE @,
          !.result = IF broken_pipe THEN "BrokenPipe" ELSE @]
    /\ sup' = [sup EXCEPT ![SessionKey] = IF broken_pipe THEN "failed" ELSE @]
    /\ UNCHANGED <<processes, analysis_handlers, communication_handles, lock, lastTrans, api,
                   handler, varsL, varsR>>

\* One iteration whose read fails.
LoopReadError(broken_pipe) ==
    /\ LoopReads
    /\ \E f \in flush_pending_events(event_manager) :
         /\ event_manager' = f.em
         /\ delivered' = delivered \o f.sent
    /\ loop' = [loop EXCEPT
          !.consecutive_errors = @ + 1,
          !.status = IF broken_pipe /\ loop.consecutive_errors + 1 >= MAX_CONSECUTIVE_ERRORS
                     THEN "failed" ELSE @,
          !.result = IF broken_pipe /\ loop.consecutive_errors + 1 >= MAX_CONSECUTIVE_ERRORS
                     THEN "BrokenPipe" ELSE @]
    /\ sup' = [sup EXCEPT ![SessionKey] =
                 IF broken_pipe /\ loop.consecutive_errors + 1 >= MAX_CONSECUTIVE_ERRORS
                 THEN "failed" ELSE @]
    /\ UNCHANGED <<processes, analysis_handlers, communication_handles, lock, lastTrans, api,
                   handler, varsL, varsR>>

\* The check at the top of the loop after too many consecutive errors.
LoopAbort ==
    /\ loop.status = "running" /\ loop.consecutive_errors >= MAX_CONSECUTIVE_ERRORS
    /\ loop' = [loop EXCEPT !.status = "failed", !.result = "TooManyFailures"]
    /\ sup' = [sup EXCEPT ![SessionKey] = "failed"]
    /\ UNCHANGED <<processes, analysis_handlers, communication_handles, lock, lastTrans, api,
                   handler, event_manager, delivered, varsL, varsR>>

\* The engine exits or crashes: its stdout closes without a bestmove.
StdoutCloses ==
    /\ loop.status = "running" /\ ~loop.eof
    /\ loop' = [loop EXCEPT !.eof = TRUE]
    /\ UNCHANGED <<handler, event_manager, delivered, varsP, varsL, varsR>>

\* Time passes: the rate limiter frees a cell.
RateRefill ==
    /\ loop.status = "running" /\ ~event_manager.free
    /\ event_manager' = [event_manager EXCEPT !.free = TRUE]
    /\ UNCHANGED <<handler, loop, delivered, varsP, varsL, varsR>>

\* AnalysisHandler::new, PriorityEventManager::new and the loop's locals.
NewSession(real_multipv, go_mode) ==
    /\ handler = [real_multipv |-> real_multipv, last_depth |-> 0, best_moves |-> <<>>,
                  last_best_moves |-> <<>>, last_progress |-> 0]
    /\ event_manager = [first_result_sent |-> FALSE, queue |-> <<>>, free |-> TRUE,
                        last_emit_time |-> FALSE]
    /\ loop = [status |-> "running", first_result_sent |-> FALSE, consecutive_errors |-> 0,
               infos |-> 0, go_mode |-> go_mode, result |-> "-", eof |-> FALSE]
    /\ delivered = <<>>

InitSessionVars ==
    /\ handler = [real_multipv |-> 1, last_depth |-> 0, best_moves |-> <<>>,
                  last_best_moves |-> <<>>, last_progress |-> 0]
    /\ event_manager = [first_result_sent |-> FALSE, queue |-> <<>>, free |-> TRUE,
                        last_emit_time |-> FALSE]
    /\ loop = [status |-> "none", first_result_sent |-> FALSE, consecutive_errors |-> 0,
               infos |-> 0, go_mode |-> "Infinite", result |-> "-", eof |-> FALSE]
    /\ delivered = <<>>

-----------------------------------------------------------------------------
(* db/search.rs over one game record.                                      *)
(*                                                                         *)
(* The chess library is outside the repository; it is represented by a     *)
(* small game with the features the search depends on: a list of legal     *)
(* moves whose length depends on the position, pawns leaving their home    *)
(* square, promotions and captures.  Each side has one pawn, which is on   *)
(* its home square ("home"), advanced ("adv"), promoted ("queen") or       *)
(* captured ("gone"); a side whose pawn is at home has to move it.         *)

ChessDefault == [w |-> "home", b |-> "home", turn |-> "w"]

\* Position::legal_moves, in the order the library produces them (as SAN).
position_legal_moves(pos) ==
    LET own == pos[pos.turn]
        opp == pos[IF pos.turn = "w" THEN "b" ELSE "w"]
    IN (IF own = "home" THEN <<"P">>
        ELSE IF own = "adv" THEN <<"Q", "K">>
        ELSE <<"K">>)
       \o (IF own \in {"adv", "queen"} /\ opp # "gone" THEN <<"x">> ELSE <<>>)

\* Position::play_unchecked of the move whose SAN is san.
play_unchecked(pos, san) ==
    LET me == pos.turn
        other == IF me = "w" THEN "b" ELSE "w"
        moved == CASE san = "P" -> [pos EXCEPT ![me] = "adv"]
                   [] san = "Q" -> [pos EXCEPT ![me] = "queen"]
                   [] san = "x" -> [pos EXCEPT ![other] = "gone"]
                   [] OTHER -> pos
    IN [moved EXCEPT !.turn = other]

\* material on the scale P = 1, Q = 9.
get_material_count(board) ==
    LET value(s) == CASE s \in {"home", "adv"} -> 1 [] s = "queen" -> 9 [] OTHER -> 0
    IN [white |-> value(board.w), black |-> value(board.b)]

\* The pawns still on their home square, as the set of the bits set.
get_pawn_home(board) == {c \in {"w", "b"} : board[c] = "home"}

\* PositionQuery::exact_from_fen and partial_from_fen.  A partial query names
\* the pieces that must be present; "gone" asks for nothing on that side.
exact_from_fen(pos) ==
    [kind |-> "Exact", position |-> pos, pawn_home |-> get_pawn_home(pos),
     material |-> get_material_count(pos)]

partial_from_fen(board) ==
    [kind |-> "Partial", position |-> board, pawn_home |-> {},
     material |-> get_material_count(board)]

Queries ==
    {exact_from_fen(ChessDefault),
     exact_from_fen([w |-> "adv", b |-> "home", turn |-> "b"]),
     exact_from_fen([w |-> "queen", b |-> "adv", turn |-> "b"]),
     partial_from_fen([w |-> "home", b |-> "home", turn |-> "w"]),
     partial_from_fen([w |-> "gone", b |-> "adv", turn |-> "w"])}

\* PositionQuery::matches.
matches(query, position) ==
    IF query.kind = "Exact"
    THEN /\ query.position.turn = position.turn
         /\ query.position.w = position.w
         /\ query.position.b = position.b
    ELSE \A c \in {"w", "b"} :
             query.position[c] = "gone" \/ position[c] = query.position[c]

\* PositionQuery::is_reachable_by, with is_end_reachable and
\* is_material_reachable.
is_reachable_by(query, material, pawn_home) ==
    LET is_end_reachable(end, pos) == end \ pos = {}
        is_material_reachable(end, pos) ==
            end.white <= pos.white /\ end.black <= pos.black
    IN IF query.kind = "Exact"
       THEN is_end_reachable(query.pawn_home, pawn_home)
            /\ is_material_reachable(query.material, material)
       ELSE is_material_reachable(query.material, material)

\* PositionQuery::can_reach; the material test is is_material_reachable(
\* material, &data.material), the arguments in that order.
can_reach(query, material, pawn_home) ==
    LET is_end_reachable(end, pos) == end \ pos = {}
        is_material_reachable(end, pos) ==
            end.white <= pos.white /\ end.black <= pos.black
    IN IF query.kind = "Exact"
       THEN is_end_reachable(query.pawn_home, pawn_home)
            /\ is_material_reachable(material, query.material)
       ELSE TRUE

START_VARIATION == 254
END_VARIATION == 253
COMMENT == 252
NAG == 251

\* The bytes a blob is drawn from: two move indices and the four tokens.
Bytes == {0, 1, NAG, COMMENT, END_VARIATION, START_VARIATION}

MaxBlobLen == 5

Blobs == UNION {[1..n -> Bytes] : n \in 0..MaxBlobLen}

\* The COMMENT header and the machine word are scaled together: a header of
\* HeaderBytes bytes holds a length of 8 * HeaderBytes bits, and index
\* arithmetic is done in words of that width.
HeaderBytes == 1

WordSize == 256 ^ HeaderBytes

Builds == {"debug", "release"}

\* A MoveStream; bytes are held by the variable moves, index counts from 0.
MoveStream_new(start_position) ==
    [index |-> 0, position |-> start_position, san |-> "-", status |-> "new"]

RECURSIVE from_be_bytes(_)
from_be_bytes(s) ==
    IF s = <<>> THEN 0
    ELSE from_be_bytes(SubSeq(s, 1, Len(s) - 1)) * 256 + s[Len(s)]

\* The inner loop of the START_VARIATION arm: from index with depth open
\* variations, the index at which the loop ends.
RECURSIVE skip_variation(_, _, _)
skip_variation(bytes, index, depth) ==
    IF index < Len(bytes) /\ depth > 0
    THEN skip_variation(bytes, index + 1,
                        CASE bytes[index + 1] = START_VARIATION -> depth + 1
                          [] bytes[index + 1] = END_VARIATION -> depth - 1
                          [] OTHER -> depth)
    ELSE index

\* MoveStream::next_move from self.index = index.  status is "some" with the
\* new position and the SAN, "none", "panic" (arithmetic overflow in a build
\* with overflow checks) or "hang" (the loop comes back to an index it has
\* already been at with the same position, so it never ends).
RECURSIVE next_move_from(_, _, _, _, _)
next_move_from(bytes, index, position, seen, bld) ==
    LET len == Len(bytes)
        Ret(i, st) == [index |-> i, position |-> position, san |-> "-", status |-> st]
    IN IF ~(index < len) THEN Ret(index, "none")
       ELSE IF index \in seen THEN Ret(index, "hang")
       ELSE LET byte == bytes[index + 1]
                again(i) == next_move_from(bytes, i, position, seen \cup {index}, bld)
            IN CASE byte = COMMENT ->
                      IF index + HeaderBytes >= len THEN Ret(index, "none")
                      ELSE LET length == from_be_bytes(
                                   SubSeq(bytes, index + 2, index + 1 + HeaderBytes))
                               sum == index + (HeaderBytes + 1) + length
                           IN IF sum < WordSize THEN again(sum)
                              ELSE IF bld = "debug" THEN Ret(index, "panic")
                              ELSE again(sum % WordSize)
                 [] byte = NAG -> again(index + 2)
                 [] byte = START_VARIATION -> again(skip_variation(bytes, index + 1, 1))
                 [] byte = END_VARIATION -> again(index + 1)
                 [] OTHER ->
                      LET list == position_legal_moves(position)
                      IN IF byte < Len(list)
                         THEN [index |-> index + 1,
                               position |-> play_unchecked(position, list[byte + 1]),
                               san |-> list[byte + 1], status |-> "some"]
                         ELSE Ret(index, "none")

next_move(bytes, ms, bld) == next_move_from(bytes, ms.index, ms.position, {}, bld)

\* What a lookup returns, as one value: the SAN of Ok(Some(san)), "*", or
\* "None" for Ok(None); a lookup that does not return is "panic" or "hang".
Returned(r, at_end) ==
    CASE r.status = "some" -> r.san
      [] r.status = "none" -> at_end
      [] OTHER -> r.status

MAX_MOVES_WITHOUT_REACHABILITY_CHECK == 20

\* The while-let loop of get_move_after_match.  seen holds the stream states
\* the loop has been in: coming back to one of them, it never ends.
RECURSIVE get_move_after_match_loop(_, _, _, _, _, _)
get_move_after_match_loop(move_blob, query, ms, move_count, seen, bld) ==
    LET r == next_move(move_blob, ms, bld)
        count == move_count + 1
    IN IF r.status # "some" THEN Returned(r, "None")
       ELSE IF matches(query, r.position)
       THEN Returned(next_move(move_blob, r, bld), "*")
       ELSE IF /\ count > MAX_MOVES_WITHOUT_REACHABILITY_CHECK
               /\ count % 10 = 0
               /\ ~is_reachable_by(query, get_material_count(r.position),
                                   get_pawn_home(r.position))
       THEN "None"
       ELSE IF <<r.index, r.position, count % 10>> \in seen THEN "hang"
       ELSE get_move_after_match_loop(move_blob, query, r, count,
                                      seen \cup {<<r.index, r.position, count % 10>>}, bld)

get_move_after_match(move_blob, query, bld) ==
    LET start_position == ChessDefault
    IN IF matches(query, start_position)
       THEN IF move_blob = <<>> THEN "*"
            ELSE Returned(next_move(move_blob, MoveStream_new(start_position), bld),
                          "None")
       ELSE get_move_after_match_loop(move_blob, query,
                                      MoveStream_new(start_position), 0, {}, bld)

\* decode_move: the byte as an index into the legal moves, tokens not
\* recognised; "-" when there is no such move.
decode_move(byte, chess) ==
    LET list == position_legal_moves(chess)
    IN IF byte < Len(list) THEN list[byte + 1] ELSE "-"

\* The for loop of get_move_after_match_fast at the byte of index i.
RECURSIVE get_move_after_match_fast_loop(_, _, _, _)
get_move_after_match_fast_loop(move_blob, query, i, chess) ==
    IF ~(i < Len(move_blob)) THEN "None"
    ELSE LET m == decode_move(move_blob[i + 1], chess)
             played == play_unchecked(chess, m)
         IN IF m = "-" THEN "None"
            ELSE IF ~is_reachable_by(query, get_material_count(played),
                                     get_pawn_home(played))
            THEN "None"
            ELSE IF matches(query, played)
            THEN IF i = Len(move_blob) - 1 THEN "*"
                 ELSE LET next == decode_move(move_blob[i + 2], played)
                      IN IF next # "-" THEN next ELSE "None"
            ELSE get_move_after_match_fast_loop(move_blob, query, i + 1, played)

get_move_after_match_fast(move_blob, query) ==
    LET chess == ChessDefault
    IN IF matches(query, chess)
       THEN IF move_blob = <<>> THEN "*"
            ELSE LET next == decode_move(move_blob[1], chess)
                 IN IF next # "-" THEN next ELSE "None"
       ELSE get_move_after_match_fast_loop(move_blob, query, 0, chess)

\* GameTree::from_bytes, reduced to the moves of its top-level nodes: the blob
\* is read token by token, a variation is a nested sequence of tokens closed
\* by its END_VARIATION, and a NAG or a COMMENT inside it is skipped as one
\* token.  Reading stops at an illegal move index or at a COMMENT the blob
\* does not hold in full.
RECURSIVE GameTree_from_bytes(_, _, _, _)
GameTree_from_bytes(bytes, index, depth, position) ==
    LET len == Len(bytes)
        byte == bytes[index + 1]
        length == from_be_bytes(SubSeq(bytes, index + 2, index + 1 + HeaderBytes))
        list == position_legal_moves(position)
    IN IF ~(index < len) THEN <<>>
       ELSE CASE byte = NAG -> GameTree_from_bytes(bytes, index + 2, depth, position)
              [] byte = COMMENT ->
                   IF index + HeaderBytes >= len THEN <<>>
                   ELSE IF ~(index + HeaderBytes + length < len) THEN <<>>
                   ELSE GameTree_from_bytes(bytes, index + HeaderBytes + 1 + length,
                                            depth, position)
              [] byte = START_VARIATION ->
                   GameTree_from_bytes(bytes, index + 1, depth + 1, position)
              [] byte = END_VARIATION ->
                   GameTree_from_bytes(bytes, index + 1,
                                       IF depth > 0 THEN depth - 1 ELSE 0, position)
              [] OTHER ->
                   IF depth > 0
                   THEN GameTree_from_bytes(bytes, index + 1, depth, position)
                   ELSE IF byte < Len(list)
                   THEN <<list[byte + 1]>>
                        \o GameTree_from_bytes(bytes, index + 1, depth,
                                               play_unchecked(position, list[byte + 1]))
                   ELSE <<>>

\* extract_main_line_moves from the default start position: the moves of the
\* tree's nodes that are moves of the position they are played in.
RECURSIVE main_line_from(_, _)
main_line_from(nodes, position) ==
    IF nodes = <<>> THEN <<>>
    ELSE IF \E i \in 1..Len(position_legal_moves(position)) :
                position_legal_moves(position)[i] = nodes[1]
    THEN <<nodes[1]>> \o main_line_from(Tail(nodes), play_unchecked(position, nodes[1]))
    ELSE main_line_from(Tail(nodes), position)

extract_main_line_moves(bytes) ==
    main_line_from(GameTree_from_bytes(bytes, 0, 0, ChessDefault), ChessDefault)

\* decode_game_positions: the start position and the position after each
\* main-line move.
RECURSIVE positions_from(_, _)
positions_from(sans, position) ==
    IF sans = <<>> THEN <<position>>
    ELSE <<position>> \o positions_from(Tail(sans), play_unchecked(position, sans[1]))

decode_game_positions(bytes) ==
    positions_from(extract_main_line_moves(bytes), ChessDefault)

\* A blob made of whole tokens: every NAG has its byte, every COMMENT its
\* header and payload, every variation is closed and none is closed twice.
RECURSIVE WellFormed(_, _, _)
WellFormed(bytes, index, depth) ==
    LET len == Len(bytes)
        byte == bytes[index + 1]
        length == from_be_bytes(SubSeq(bytes, index + 2, index + 1 + HeaderBytes))
    IN IF ~(index < len) THEN index = len /\ depth = 0
       ELSE CASE byte = NAG -> index + 1 < len /\ WellFormed(bytes, index + 2, depth)
              [] byte = COMMENT ->
                   /\ index + HeaderBytes < len
                   /\ index + HeaderBytes + length < len
                   /\ WellFormed(bytes, index + HeaderBytes + 1 + length, depth)
              [] byte = START_VARIATION -> WellFormed(bytes, index + 1, depth + 1)
              [] byte = END_VARIATION -> depth > 0 /\ WellFormed(bytes, index + 1, depth - 1)
              [] OTHER -> WellFormed(bytes, index + 1, depth)

NoDbCall == [op |-> "none", query |-> exact_from_fen(ChessDefault), res |-> "-"]

\* One call of MoveStream::next_move on the stream over the record's blob.
StreamNext ==
    /\ dbcall = NoDbCall
    /\ stream.ms.status \in {"new", "some"}
    /\ Len(stream.yielded) <= Len(moves)
    /\ LET r == next_move(moves, stream.ms, build)
       IN stream' = [ms |-> r,
                     yielded |-> IF r.status = "some"
                                 THEN Append(stream.yielded, r.san)
                                 ELSE stream.yielded]
    /\ UNCHANGED <<moves, build, dbcall>>

CallGetMoveAfterMatch(query) ==
    /\ dbcall = NoDbCall
    /\ stream.ms.status = "new"
    /\ dbcall' = [op |-> "get_move_after_match", query |-> query,
                  res |-> get_move_after_match(moves, query, build)]
    /\ UNCHANGED <<moves, build, stream>>

CallGetMoveAfterMatchFast(query) ==
    /\ dbcall = NoDbCall
    /\ stream.ms.status = "new"
    /\ dbcall' = [op |-> "get_move_after_match_fast", query |-> query,
                  res |-> get_move_after_match_fast(moves, query)]
    /\ UNCHANGED <<moves, build, stream>>

InitDbVars ==
    /\ moves = <<>>
    /\ build = "release"
    /\ stream = [ms |-> MoveStream_new(ChessDefault), yielded |-> <<>>]
    /\ dbcall = NoDbCall

-----------------------------------------------------------------------------
(* search_position of db/search.rs over one archive file and one           *)
(* normalized query: the result cache, the request semaphore and the       *)
(* invocations in flight.  A game of the archive is represented by whether *)
(* get_move_after_match_fast finds the position in it.                     *)

MaxGames == 2
MaxLimit == 2

Archives == UNION {[1..n -> BOOLEAN] : n \in 0..MaxGames}

\* query.game_details_limit: Some(l), or -1 for None (None and a negative
\* limit are both replaced by the default).
Limits == (1..MaxLimit) \cup {-1}

Invocations == {1, 2}

MAX_SAMPLE_GAMES == 1000

\* The `.limit(1000)` of the sample is_position_in_db loads, on the scale
\* of the archives of the model.
SampleLimit == 1
NEW_REQUEST_PERMITS == 2
DEFAULT_DETAILS_LIMIT == 10
MAX_DETAILS_LIMIT == 1000

\* sampled: the entry was stored by is_position_in_db.
NoEntry == [present |-> FALSE, openings |-> 0, games |-> <<>>, sampled |-> FALSE]
NoResult == [kind |-> "none", err |-> "-", openings |-> 0, games |-> <<>>]

NoSearch ==
    [pc |-> "idle", limit |-> -1, next |-> 0, openings |-> 0, ids |-> <<>>,
     hit |-> FALSE, stopped |-> FALSE, finished |-> FALSE, failed |-> "-",
     cached |-> FALSE, result |-> NoResult]

\* query.game_details_limit.unwrap_or(10).min(1000).try_into().unwrap_or(10)
game_details_limit(limit) ==
    IF limit < 0 THEN DEFAULT_DETAILS_LIMIT ELSE Min(limit, MAX_DETAILS_LIMIT)

take(s, n) == SubSeq(s, 1, Min(Len(s), n))

\* search_position up to the cache lookup and the conversion of the query:
\* has_position is whether query.position is Some.  A hit returns at once.
SearchPosition(t, limit, has_position) ==
    /\ searches[t].pc \in {"idle", "done"}
    /\ searches' = [searches EXCEPT ![t] =
         IF has_position /\ line_cache.present
         THEN [NoSearch EXCEPT !.pc = "done", !.limit = limit, !.hit = TRUE,
                               !.result = [kind |-> "Ok", err |-> "-",
                                           openings |-> line_cache.openings,
                                           games |-> take(line_cache.games,
                                                          game_details_limit(limit))]]
         ELSE IF ~has_position
         THEN [NoSearch EXCEPT !.pc = "done", !.limit = limit,
                               !.result = [NoResult EXCEPT !.kind = "Err",
                                                            !.err = "NoMatchFound"]]
         ELSE [NoSearch EXCEPT !.pc = "acquire", !.limit = limit]]
    /\ UNCHANGED <<archive, line_cache, new_request>>

\* state.new_request.acquire().await, the count of the games and the start of
\* search_position_local_internal, which returns at once on an empty archive.
SearchAcquire(t) ==
    /\ searches[t].pc = "acquire"
    /\ new_request > 0
    /\ new_request' = new_request - 1
    /\ searches' = [searches EXCEPT ![t].pc = "scan", ![t].next = 1]
    /\ UNCHANGED <<archive, line_cache>>

\* process_game on the next game of the archive.
ProcessGame(t) ==
    LET s == searches[t]
    IN /\ s.pc = "scan"
       /\ s.next <= Len(archive)
       /\ searches' = [searches EXCEPT ![t] =
            IF new_request = 0
            THEN [s EXCEPT !.next = s.next + 1, !.stopped = TRUE]
            ELSE IF archive[s.next]
            THEN [s EXCEPT !.next = s.next + 1,
                           !.ids = IF Len(s.ids) < MAX_SAMPLE_GAMES
                                   THEN Append(s.ids, s.next) ELSE s.ids,
                           !.openings = s.openings + 1]
            ELSE [s EXCEPT !.next = s.next + 1]]
       /\ UNCHANGED <<archive, line_cache, new_request>>

\* search_position after the scan: the details of the first
\* game_details_limit games are loaded, the result is put in the cache, the
\* final progress event is emitted and the permit dropped.
SearchFinish(t) ==
    LET s == searches[t]
        normalized_games == take(s.ids, game_details_limit(s.limit))
    IN /\ s.pc = "scan"
       /\ s.next > Len(archive)
       /\ line_cache' = [present |-> TRUE, openings |-> s.openings,
                         games |-> normalized_games, sampled |-> FALSE]
       /\ new_request' = new_request + 1
       /\ searches' = [searches EXCEPT ![t] =
            [s EXCEPT !.pc = "done", !.finished = TRUE, !.cached = TRUE,
                      !.result = [kind |-> "Ok", err |-> "-", openings |-> s.openings,
                                  games |-> normalized_games]]]
       /\ UNCHANGED archive

\* query_builder.load(db)? fails: the error is returned, the permit dropped.
SearchLoadError(t) ==
    LET s == searches[t]
    IN /\ s.pc = "scan"
       /\ s.next > Len(archive)
       /\ take(s.ids, game_details_limit(s.limit)) # <<>>
       /\ new_request' = new_request + 1
       /\ searches' = [searches EXCEPT ![t] =
            [s EXCEPT !.pc = "done", !.failed = "details",
                      !.result = [NoResult EXCEPT !.kind = "Err", !.err = "Diesel"]]]
       /\ UNCHANGED <<archive, line_cache>>

\* is_position_in_db, which holds a permit from its start to its end: a hit
\* answers from the cache; otherwise the first SampleLimit games are loaded
\* and, when none of them matches, an empty entry is stored under the key.
IsPositionInDb ==
    LET sample == 1..Min(SampleLimit, Len(archive))
        exists == \E g \in sample : archive[g]
    IN /\ line_cache.present \/ new_request > 0
       /\ line_cache' = IF ~line_cache.present /\ ~exists
                        THEN [NoEntry EXCEPT !.present = TRUE, !.sampled = TRUE]
                        ELSE line_cache
       /\ UNCHANGED <<archive, new_request, searches>>

\* games::table.select(..).load(db) fails at the start of
\* search_position_*_internal: `Err(e) => return (Vec::new(), Vec::new())`,
\* and search_position goes on with no openings and no ids.
SearchGamesError(t) ==
    LET s == searches[t]
    IN /\ s.pc = "scan"
       /\ s.next = 1
       /\ s.failed = "-"
       /\ searches' = [searches EXCEPT ![t] =
            [s EXCEPT !.next = Len(archive) + 1, !.failed = "games"]]
       /\ UNCHANGED <<archive, line_cache, new_request>>

InitSearchVars ==
    /\ archive = <<>>
    /\ line_cache = NoEntry
    /\ new_request = NEW_REQUEST_PERMITS
    /\ searches = [t \in Invocations |-> NoSearch]

-----------------------------------------------------------------------------
(* analyze_game: GameAnalyzer::analyze_game_with_state of engine/analysis.rs *)
(* ("engine") and GameAnalysisService::analyze_game of chess/analysis.rs   *)
(* ("chess").  A position's MoveAnalysis is "best" when the engine's lines *)
(* were stored in it and "default" otherwise.  The result is "Ok" or the   *)
(* step whose error was returned.                                          *)

MaxPositions == 3

Analyzers == {"engine", "chess"}

\* What happens to one position: everything works, or the first step that
\* fails (the progress event, the engine process of the position, its
\* configuration, the start of the search, the reading of its output).
Outcomes == {"ok", "emit", "spawn", "configure", "start", "read"}

\* live: the engine subprocesses the call has spawned that were neither
\* killed nor seen to exit; a subprocess whose handle is dropped stays.
NoAnalysis ==
    [analyzer |-> "engine", pc |-> "idle", total |-> 0, outcomes |-> <<>>,
     analysis |-> <<>>, result |-> "-", finished |-> FALSE, live |-> 0]

\* analyze_game up to the loop over the positions: the first engine process,
\* the FEN and the list of positions; any failure is returned.
AnalyzeBegin(impl, total, ok) ==
    /\ analyze.pc = "idle"
    /\ \E spawned \in BOOLEAN :
         analyze' = IF ok
                    THEN [NoAnalysis EXCEPT !.analyzer = impl, !.pc = "loop",
                                            !.total = total, !.live = 1]
                    ELSE [NoAnalysis EXCEPT !.analyzer = impl, !.pc = "done",
                                            !.result = "begin",
                                            !.live = IF spawned THEN 1 ELSE 0]

\* One iteration of the loop of analyze_game_with_state.
AnalyzePositionEngine(outcome) ==
    /\ analyze.pc = "loop"
    /\ analyze.analyzer = "engine"
    /\ Len(analyze.analysis) < analyze.total
    /\ analyze' =
         IF outcome \in {"emit", "spawn"}
         THEN [analyze EXCEPT !.pc = "done", !.result = outcome,
                              !.outcomes = Append(@, outcome)]
         ELSE [analyze EXCEPT !.outcomes = Append(@, outcome),
                              !.live = @ + 1,
                              !.analysis = Append(@, IF outcome = "ok" THEN "best"
                                                     ELSE "default")]

\* One iteration of the loop of GameAnalysisService::analyze_game, which
\* keeps one engine process for all positions.
AnalyzePositionChess(outcome) ==
    /\ analyze.pc = "loop"
    /\ analyze.analyzer = "chess"
    /\ outcome # "spawn"
    /\ Len(analyze.analysis) < analyze.total
    /\ analyze' =
         IF outcome \in {"emit", "configure", "start"}
         THEN [analyze EXCEPT !.pc = "done", !.result = outcome,
                              !.outcomes = Append(@, outcome)]
         ELSE [analyze EXCEPT !.outcomes = Append(@, outcome),
                              !.analysis = Append(@, IF outcome = "ok" THEN "best"
                                                     ELSE "default")]

\* After the loop: the annotations and the final progress event, whose
\* failure (and, in chess/, that of the novelty lookup) is returned.  Only
\* engine/ then stops and kills a process, the one spawned first.
AnalyzeEnd(ok) ==
    /\ analyze.pc = "loop"
    /\ Len(analyze.analysis) = analyze.total
    /\ analyze' = IF ok
                  THEN [analyze EXCEPT !.pc = "done", !.result = "Ok",
                                       !.finished = TRUE,
                                       !.live = IF analyze.analyzer = "engine"
                                                THEN @ - 1 ELSE @]
                  ELSE [analyze EXCEPT !.pc = "done", !.result = "end"]

InitAnalysisVars == analyze = NoAnalysis

-----------------------------------------------------------------------------
(* engine/events.rs and EventQueue of engine/communication.rs: an          *)
(* EventManager that is handed the payloads 1, 2, 3, ... in the order of   *)
(* their production.  emitter.dropped is the payload the last queue_event  *)
(* removed from a full queue (0: none yet) and emitter.pending the queue   *)
(* it was removed from; emitter.flushes counts the flushes of a non-empty  *)
(* queue.                                                                  *)

MaxEvents == 12
MaxFlushes == 2

NoEmitter ==
    [em |-> [first_result_sent |-> FALSE, queue |-> <<>>, free |-> TRUE,
             last_emit_time |-> FALSE],
     produced |-> 0, flushes |-> 0, dropped |-> 0, pending |-> <<>>]

\* EventManager::emit_best_moves on the next payload.
QueueEmit(force_immediate, ok, more) ==
    /\ emitter.produced < MaxEvents
    /\ LET payload == emitter.produced + 1
           q == emitter.em.queue
           r == emit_best_moves(emitter.em, payload, force_immediate, ok, more)
           full == r.res # "true" /\ Len(q) >= max_queue_size
       IN emitter' = [emitter EXCEPT !.em = r.em, !.produced = payload,
                                     !.dropped = IF full THEN Head(q) ELSE @,
                                     !.pending = IF full THEN q ELSE @]

\* EventManager::flush_pending_events at the top of a loop iteration.
QueueFlush ==
    /\ emitter.em.queue # <<>> /\ emitter.flushes < MaxFlushes
    /\ \E f \in flush_pending_events(emitter.em) :
          emitter' = [emitter EXCEPT !.em = f.em, !.flushes = @ + 1]

\* Time passes: the rate limiter frees a cell.
QueueRefill ==
    /\ ~emitter.em.free
    /\ emitter' = [emitter EXCEPT !.em.free = TRUE]

-----------------------------------------------------------------------------
(* The progress handle_info_message of engine/manager.rs computes for a    *)
(* complete set of lines and stores in the handler and in the payload.     *)

MaxTarget == 2
MaxReported == 3

\* GoMode with the target of the search (PlayersTime and Infinite have none).
GoModeTargets ==
    [kind : {"Depth", "Time", "Nodes"}, target : 0..MaxTarget]
        \cup [kind : {"PlayersTime", "Infinite"}, target : {0}]

\* Milliseconds since the search started.
Elapsed == {0, 1, MaxReported, 60000}

NoReport ==
    [go_mode |-> [kind |-> "Infinite", target |-> 0], depth |-> 0, nodes |-> 0,
     elapsed |-> 0, sent |-> FALSE, last_progress |-> [class |-> "finite", value |-> 0],
     progress |-> [class |-> "finite", value |-> 0]]

\* handle_info_message on lines of depth cur_depth and cur_nodes nodes:
\* calculate_progress, set_progress and create_best_moves_payload.
HandleInfoProgress(go_mode, cur_depth, cur_nodes, elapsed) ==
    LET progress == calculate_progress(go_mode, cur_depth, cur_nodes, elapsed)
    IN reported' = [go_mode |-> go_mode, depth |-> cur_depth, nodes |-> cur_nodes,
                    elapsed |-> elapsed, sent |-> TRUE, last_progress |-> progress,
                    progress |-> progress]

-----------------------------------------------------------------------------
(* EngineProcess::new of engine/process.rs ("engine") and chess/process.rs *)
(* ("chess"): the UCI handshake with a freshly spawned subprocess.         *)
(* handshake.sent are the commands written, handshake.lines the lines read *)
(* from the engine, handshake.child the subprocess ("running", "killed").  *)

MaxLines == 4

Modules == {"engine", "chess"}

EngineLines == {"id", "uciok", "readyok"}

NoHandshake ==
    [pc |-> "none", module |-> "engine", sent |-> <<>>, lines |-> <<>>, child |-> "none",
     cause |-> "-", result |-> "-"]

\* The handshake fails: engine/ kills the child before returning the error,
\* chess/ returns the error and drops the handles.
init_failed(h, cause, err) ==
    [h EXCEPT !.pc = "done", !.cause = cause, !.result = err,
              !.child = IF h.module = "engine" THEN "killed" ELSE @]

\* The error of a failed write to the engine's stdin.
write_error(h, w) == init_failed(h, "write", IF w = "pipe" /\ h.module = "engine"
                                             THEN "BrokenPipe" ELSE "Io")

\* new(): spawn the subprocess and write `uci`; w is the outcome of the write.
HandshakeBegin(module, w) ==
    /\ handshake.pc = "none"
    /\ LET h == [NoHandshake EXCEPT !.module = module, !.child = "running"]
       IN handshake' = IF w = "ok"
                       THEN [h EXCEPT !.pc = "wait_uciok", !.sent = <<"uci">>]
                       ELSE write_error(h, w)

\* A line of the engine is read: uciok is answered with `isready`, readyok
\* after that ends the handshake with an engine in state Idle.
HandshakeLine(line, w) ==
    /\ handshake.pc \in {"wait_uciok", "wait_readyok"}
    /\ Len(handshake.lines) < MaxLines
    /\ LET h == [handshake EXCEPT !.lines = Append(@, line)]
       IN handshake' =
            IF h.pc = "wait_uciok" /\ line = "uciok"
            THEN IF w = "ok"
                 THEN [h EXCEPT !.pc = "wait_readyok", !.sent = Append(@, "isready")]
                 ELSE write_error(h, w)
            ELSE IF h.pc = "wait_readyok" /\ line = "readyok"
            THEN [h EXCEPT !.pc = "done", !.result = "Idle"]
            ELSE h

\* The engine's output closes before the handshake is complete.
HandshakeClose ==
    /\ handshake.pc \in {"wait_uciok", "wait_readyok"}
    /\ handshake' = init_failed(handshake, "closed",
                                IF handshake.module = "engine" THEN "Timeout"
                                ELSE "EngineInitFailed")

\* The deadline of the handshake (engine/) or of its current phase (chess/)
\* passes.
HandshakeDeadline ==
    /\ handshake.pc \in {"wait_uciok", "wait_readyok"}
    /\ handshake' = init_failed(handshake, "deadline",
                                IF handshake.module = "engine" THEN "InitTimeout"
                                ELSE "EngineTimeout")

-----------------------------------------------------------------------------
(* EngineProcess::configure of engine/process.rs.  config.options is the   *)
(* snapshot self.options (multipv 0: the option is absent, as in           *)
(* EngineOptions::default()), config.sent the commands the last call       *)
(* wrote, config.request and config.prev the options of the last two calls.*)

DefaultOptions == [pos |-> "none", multipv |-> 0]

Max(a, b) == IF a > b THEN a ELSE b

\* communication::calculate_effective_multipv
calculate_effective_multipv(requested_multipv, pos) ==
    Max(Min(requested_multipv, legal_moves(pos)), 1)

\* ensure_multipv_option: the MultiPV value of the processed copy.
ensure_multipv_option(options) ==
    IF options.multipv <= 1 THEN options.multipv
    ELSE calculate_effective_multipv(options.multipv, options.pos)

\* apply_changed_options: the setoption commands for the processed options
\* that differ from the snapshot.
apply_changed_options(self_options, options) ==
    LET processed == ensure_multipv_option(options)
    IN IF self_options.multipv # processed
       THEN <<[cmd |-> "setoption", name |-> "MultiPV", value |-> processed]>>
       ELSE <<>>

\* set_position when FEN or moves differ from the snapshot.
set_position(self_options, options) ==
    IF options.pos # self_options.pos
    THEN <<[cmd |-> "position", name |-> options.pos, value |-> 0]>>
    ELSE <<>>

NoConfig ==
    [options |-> DefaultOptions, sent |-> <<>>, request |-> DefaultOptions,
     prev |-> DefaultOptions, result |-> "-", prev_result |-> "-"]

\* configure(options); ok: every write to the engine succeeds.
Configure(options, ok) ==
    LET commands == apply_changed_options(config.options, options)
                        \o set_position(config.options, options)
    IN config' = [options |-> IF ok \/ commands = <<>> THEN options ELSE config.options,
                  sent |-> IF ok THEN commands ELSE <<>>,
                  request |-> options, prev |-> config.request,
                  result |-> IF ok \/ commands = <<>> THEN "Ok" ELSE "Err",
                  prev_result |-> config.result]

(***************************************************************************)
(* Reachability pruning of a position search (db/search.rs).  A search     *)
(* tests the start position of a game with can_reach before it decodes     *)
(* the game, and every position it walks through with is_reachable_by.     *)
(***************************************************************************)

\* Every board of the abstract game, as a target and as a current position.
Boards ==
    [w : {"home", "adv", "queen", "gone"}, b : {"home", "adv", "queen", "gone"},
     turn : {"w", "b"}]

NoReach ==
    [query |-> exact_from_fen(ChessDefault), material |-> get_material_count(ChessDefault),
     pawn_home |-> get_pawn_home(ChessDefault), tested |-> FALSE,
     can_reach |-> FALSE, is_reachable_by |-> FALSE]

\* The two tests of the query made from target, at the position board.
ReachTest(target, exact, board) ==
    LET query == IF exact THEN exact_from_fen(target) ELSE partial_from_fen(target)
        material == get_material_count(board)
        pawn_home == get_pawn_home(board)
    IN reach' = [query |-> query, material |-> material, pawn_home |-> pawn_home,
                 tested |-> TRUE,
                 can_reach |-> can_reach(query, material, pawn_home),
                 is_reachable_by |-> is_reachable_by(query, material, pawn_home)]

(***************************************************************************)
(* Partial queries on bitboards (db/search.rs).  A board gives each of its *)
(* squares a piece or nothing; a bitboard is the set of the squares whose  *)
(* bit is set.                                                             *)
(***************************************************************************)

NumSquares == 2
Squares == 1..NumSquares
Roles == {"kings", "queens", "rooks", "bishops", "knights", "pawns"}
Colors == {"white", "black"}
Empty == [role |-> "-", color |-> "-"]
Pieces == [role : Roles, color : Colors]
Bitboards == [Squares -> Pieces \cup {Empty}]
EmptyBoard == [s \in Squares |-> Empty]

\* Board::kings() ... Board::black(): the squares of a role or of a colour.
plane(board, name) ==
    {s \in Squares : board[s].role = name \/ board[s].color = name}

\* PartialMasks::from_setup; non_empty holds the bits of the non-empty planes.
PartialMasks_from_setup(board) ==
    [n \in Roles \cup Colors |-> plane(board, n)]
        @@ [non_empty |-> {n \in Roles \cup Colors : plane(board, n) # {}}]

is_contained_by_subset(container, subset) == container \cap subset = container

is_contained(container, subset) == container \cap subset = subset

\* The Partial arm of PositionQuery::matches.
matches_partial(m, tested) ==
    IF m.non_empty = {} THEN TRUE
    ELSE \A n \in Roles \cup Colors :
             ~(n \in m.non_empty /\ ~is_contained(plane(tested, n), m[n]))

NoMatch ==
    [pc |-> "none", query |-> EmptyBoard, tested |-> EmptyBoard, result |-> FALSE,
     added |-> FALSE, before |-> FALSE]

\* partial_from_fen of the board query.
PartialQuery(query) ==
    /\ pmatch.pc = "none"
    /\ pmatch' = [NoMatch EXCEPT !.pc = "query", !.query = query]

\* matches on the position tested.
PartialTest(tested) ==
    /\ pmatch.pc = "query"
    /\ pmatch' = [pmatch EXCEPT !.pc = "tested", !.tested = tested,
                      !.result = matches_partial(PartialMasks_from_setup(pmatch.query), tested)]

\* matches on the position tested last with one more piece on it.
PartialTestMore(square, piece) ==
    /\ pmatch.pc = "tested"
    /\ pmatch.tested[square] = Empty
    /\ LET tested == [pmatch.tested EXCEPT ![square] = piece]
       IN pmatch' = [pmatch EXCEPT !.tested = tested, !.added = TRUE,
                        !.before = pmatch.result,
                        !.result = matches_partial(PartialMasks_from_setup(pmatch.query), tested)]

(***************************************************************************)
(* The parallel scan of a search (db/search.rs).  games.par_iter()         *)
(* .for_each runs the closure once per game on the threads of the pool;    *)
(* every call works on the same DashMap openings and the same Mutex        *)
(* sample_games.  A game is given by the move get_move_after_match finds   *)
(* for it ("-" when it is filtered out or does not match) and its result.  *)
(***************************************************************************)

MaxParGames == 3
MAX_UNIQUE_MOVES == 500
SanMoves == {"e4", "d4"}
GameResults == {"1-0", "0-1", "1/2-1/2", "*"}
ParGames == [move : SanMoves \cup {"-"}, result : GameResults]

NoStats == [present |-> FALSE, white |-> 0, black |-> 0, draw |-> 0]

NoFold ==
    [phase |-> "none", games |-> <<>>, pc |-> <<>>,
     openings |-> [m \in SanMoves |-> NoStats], sample |-> <<>>,
     result |-> [m \in SanMoves |-> NoStats]]

\* openings.len()
openings_len(openings) == Cardinality({m \in SanMoves : openings[m].present})

\* entry.white += 1 / entry.black += 1 / entry.draw += 1 on the result.
count_result(entry, result) ==
    CASE result = "1-0" -> [entry EXCEPT !.white = @ + 1]
      [] result = "0-1" -> [entry EXCEPT !.black = @ + 1]
      [] result = "1/2-1/2" -> [entry EXCEPT !.draw = @ + 1]
      [] OTHER -> entry

\* The games loaded for the scan.
FoldBegin(games) ==
    /\ fold.phase = "none"
    /\ fold' = [NoFold EXCEPT !.phase = "scan", !.games = games,
                              !.pc = [g \in DOMAIN games |-> "todo"]]

\* The closure on game g up to the end of `if let Some(mut entry) =
\* openings.get_mut(&m)`: an entry found is updated under the lock of its
\* shard; when none is found the lock is released before the else arm runs.
\* locked: sample_games.try_lock() succeeds.  The search holds one of the
\* two permits and no other search runs, so available_permits() is not 0.
WorkerLookup(g, locked) ==
    LET game == fold.games[g]
        m == game.move
    IN /\ fold.phase = "scan"
       /\ g \in DOMAIN fold.games
       /\ fold.pc[g] = "todo"
       /\ fold' =
            IF m = "-" THEN [fold EXCEPT !.pc[g] = "done"]
            ELSE [fold EXCEPT
                    !.sample = IF locked /\ Len(fold.sample) < MAX_SAMPLE_GAMES
                               THEN Append(@, g) ELSE @,
                    !.openings[m] = IF @.present THEN count_result(@, game.result) ELSE @,
                    !.pc[g] = IF fold.openings[m].present THEN "done" ELSE "insert"]

\* The else arm: openings.insert of a fresh PositionStats when the map has
\* room; insert replaces the value the key has by then.
WorkerInsert(g) ==
    LET game == fold.games[g]
        m == game.move
    IN /\ fold.phase = "scan"
       /\ g \in DOMAIN fold.games
       /\ fold.pc[g] = "insert"
       /\ fold' =
            IF openings_len(fold.openings) < MAX_UNIQUE_MOVES
            THEN [fold EXCEPT !.pc[g] = "done",
                    !.openings[m] = count_result([NoStats EXCEPT !.present = TRUE],
                                                 game.result)]
            ELSE [fold EXCEPT !.pc[g] = "done"]

\* for_each has returned: openings.into_iter() is the statistics of the search.
FoldCollect ==
    /\ fold.phase = "scan"
    /\ \A g \in DOMAIN fold.games : fold.pc[g] = "done"
    /\ fold' = [fold EXCEPT !.phase = "collected", !.result = fold.openings]

(***************************************************************************)
(* build_position_checkpoints (db/search.rs).  The archive holds the games *)
(* with ids 1..total; every game has a main line of the same number of     *)
(* plies.  The rows of the index are kept as the highest game id written   *)
(* and the plies written for each game.                                    *)
(***************************************************************************)

MaxPlies == 16
CHECKPOINT_STRIDE == 8
BATCH_SIZE == 1000
MAX_BATCHES == 200

\* The sizes of archive tried: around one batch and around the most the
\* batches of one call can hold.
ArchiveSizes ==
    {0, 1, BATCH_SIZE - 1, BATCH_SIZE, BATCH_SIZE + 1,
     BATCH_SIZE * MAX_BATCHES, BATCH_SIZE * MAX_BATCHES + 1}

NoCheckpoints ==
    [pc |-> "none", total_games |-> 0, plies |-> 0, batches_to_process |-> 0,
     done |-> 0, last_id |-> 0, rows |-> {}, result |-> "-"]

\* The plies one game gets a row for: ply 0, then the loop over
\* stream.next_move() with `ply % CHECKPOINT_STRIDE == 0`.
checkpoint_plies(plies) ==
    {0} \cup {ply \in 1..plies : ply % CHECKPOINT_STRIDE = 0}

\* The call up to the keyset scan; ok: the count query succeeds.
CheckpointsBegin(total, plies, ok) ==
    /\ ckpt.pc = "none"
    /\ ckpt' =
         IF ~ok THEN [NoCheckpoints EXCEPT !.pc = "done", !.total_games = total,
                                           !.plies = plies, !.result = "Err"]
         ELSE IF total = 0
         THEN [NoCheckpoints EXCEPT !.pc = "done", !.plies = plies, !.result = "Ok"]
         ELSE [NoCheckpoints EXCEPT !.pc = "scan", !.total_games = total, !.plies = plies,
                  !.batches_to_process = Min(total \div BATCH_SIZE + 1, MAX_BATCHES)]

\* One iteration of `for _ in 0..batches_to_process`; ok: the load and the
\* inserts of the batch succeed.
CheckpointsBatch(ok) ==
    LET batch_len == Min(BATCH_SIZE, ckpt.total_games - ckpt.last_id)
    IN /\ ckpt.pc = "scan"
       /\ ckpt.done < ckpt.batches_to_process
       /\ ckpt' =
            IF ~ok THEN [ckpt EXCEPT !.pc = "done", !.result = "Err"]
            ELSE IF batch_len = 0 THEN [ckpt EXCEPT !.pc = "done", !.result = "Ok"]
            ELSE [ckpt EXCEPT
                    !.last_id = @ + batch_len,
                    !.rows = checkpoint_plies(ckpt.plies),
                    !.done = @ + 1,
                    !.pc = IF batch_len < BATCH_SIZE THEN "done" ELSE "scan",
                    !.result = IF batch_len < BATCH_SIZE THEN "Ok" ELSE "-"]

\* The loop has run batches_to_process times: Ok(inserted_total).
CheckpointsEnd ==
    /\ ckpt.pc = "scan"
    /\ ckpt.done = ckpt.batches_to_process
    /\ ckpt' = [ckpt EXCEPT !.pc = "done", !.result = "Ok"]

(***************************************************************************)
(* Reuse of a registered engine by chess get_best_moves (chess/manager.rs, *)
(* chess/process.rs).  The engine reads its stdin in order: `position`     *)
(* sets the position, `go` starts a search of it, `stop` ends the search   *)
(* with a bestmove line; a search of bounded depth also ends by itself.    *)
(* The reader task takes the lines of stdout in order.  A bestmove line    *)
(* carries the position whose search it ends.                              *)
(***************************************************************************)

MaxReuses == 2
Fens == {"f1", "f2"}

NoReuse ==
    [pc |-> "none", options |-> "-", running |-> FALSE, want |-> "-", reuses |-> 0,
     stdin |-> <<>>, stdout |-> <<>>, position |-> "-", searching |-> "-",
     final |-> [fen |-> "-", of |-> "-"]]

\* set_options(options) followed by go(&go_mode), on the process p: the
\* position is written when it differs from the one in p.options.
set_options_go(p, fen) ==
    [p EXCEPT !.stdin = @ \o (IF fen # p.options THEN <<[cmd |-> "position", fen |-> fen]>>
                               ELSE <<>>)
                          \o <<[cmd |-> "go", fen |-> "-"]>>,
              !.options = fen, !.running = TRUE]

\* get_best_moves, key not registered: new, set_options, go, reader spawned.
ReuseNew(fen) ==
    /\ reuse.pc = "none"
    /\ reuse' = [set_options_go(NoReuse, fen) EXCEPT !.pc = "idle"]

\* get_best_moves, key registered and the call not answered from the
\* process: process.stop() under the lock, which is then released for the
\* sleep of 50 ms.
ReuseStop(fen) ==
    /\ reuse.pc = "idle"
    /\ reuse.reuses < MaxReuses
    /\ ~(fen = reuse.options /\ reuse.running)
    /\ reuse' = [reuse EXCEPT !.pc = "sleep", !.want = fen, !.running = FALSE,
                              !.stdin = Append(@, [cmd |-> "stop", fen |-> "-"])]

\* get_best_moves after the sleep: set_options and go under the lock.
ReuseConfigure ==
    /\ reuse.pc = "sleep"
    /\ reuse' = [set_options_go(reuse, reuse.want) EXCEPT
                    !.pc = "idle", !.want = "-", !.reuses = @ + 1]

\* The engine takes the next command of its stdin.
EngineCommand ==
    /\ reuse.stdin # <<>>
    /\ LET c == Head(reuse.stdin)
           rest == [reuse EXCEPT !.stdin = Tail(@)]
       IN reuse' =
            CASE c.cmd = "position" -> [rest EXCEPT !.position = c.fen]
              [] c.cmd = "go" -> [rest EXCEPT !.searching = rest.position]
              [] OTHER ->
                   IF rest.searching # "-"
                   THEN [rest EXCEPT !.searching = "-",
                                     !.stdout = Append(@, rest.searching)]
                   ELSE rest

\* The engine ends its search by itself and prints bestmove.
EngineSearchEnds ==
    /\ reuse.searching # "-"
    /\ reuse.stdin = <<>>
    /\ reuse' = [reuse EXCEPT !.searching = "-", !.stdout = Append(@, reuse.searching)]

\* The reader task on a bestmove line, under the lock of the process: the
\* final payload names proc.options.fen.
ReuseBestMove ==
    /\ reuse.stdout # <<>>
    /\ reuse' = [reuse EXCEPT !.stdout = Tail(@),
                              !.final = [fen |-> reuse.options, of |-> Head(reuse.stdout)]]

InitExtraVars ==
    /\ pmatch = NoMatch
    /\ reuse = NoReuse
    /\ ckpt = NoCheckpoints
    /\ fold = NoFold
    /\ emitter = NoEmitter
    /\ reported = NoReport
    /\ handshake = NoHandshake
    /\ config = NoConfig
    /\ reach = NoReach

InitRestVars == InitDbVars /\ InitSearchVars /\ InitAnalysisVars /\ InitExtraVars

-----------------------------------------------------------------------------
InitProcVars ==
    /\ processes = [k \in Keys |-> NoProc]
    /\ analysis_handlers = {}
    /\ communication_handles = {}
    /\ sup = [k \in Keys |-> "none"]
    /\ lock = [k \in Keys |-> "free"]
    /\ lastTrans = NoTrans
    /\ api = [pc |-> "done", op |-> "none", key |-> NoKey, tab |-> NoKey, todo |-> {},
              affected |-> {}, result |-> "-", found |-> FALSE, path |-> "-", werr |-> "-",
              stopRes |-> "-", prevOp |-> "none", prevKey |-> NoKey, prevOk |-> FALSE]

InitProc == InitProcVars /\ InitLegacyVars /\ InitSessionVars /\ InitRestVars

NextProc ==
    \/ \E k \in Keys : CallStartAnalysis(k) /\ UNCHANGED <<varsL, varsS, varsR>>
    \/ \E k \in Keys : CallStopEngine(k) /\ UNCHANGED <<varsL, varsS, varsR>>
    \/ \E k \in Keys : CallKillEngine(k) /\ UNCHANGED <<varsL, varsS, varsR>>
    \/ \E tab \in Tabs : CallKillEnginesForTab(tab) /\ UNCHANGED <<varsL, varsS, varsR>>
    \/ KillEngineBegin /\ UNCHANGED <<varsL, varsS, varsR>>
    \/ StopBegin /\ UNCHANGED <<varsL, varsS, varsR>>
    \/ StopSend /\ UNCHANGED <<varsL, varsS, varsR>>
    \/ StopFallback /\ UNCHANGED <<varsL, varsS, varsR>>
    \/ StopResult /\ UNCHANGED <<varsL, varsS, varsR>>
    \/ KillEngineKill /\ UNCHANGED <<varsL, varsS, varsR>>
    \/ KillEngineCleanup /\ UNCHANGED <<varsL, varsS, varsR>>
    \/ StartSpawn /\ UNCHANGED <<varsL, varsS, varsR>>
    \/ StartConfigure /\ UNCHANGED <<varsL, varsS, varsR>>
    \/ StartGo /\ UNCHANGED <<varsL, varsS, varsR>>
    \/ KillTabLoop /\ UNCHANGED <<varsL, varsS, varsR>>
    \/ KillTabCleanup /\ UNCHANGED <<varsL, varsS, varsR>>
    \/ \E k \in Keys : SupBestmove(k) /\ UNCHANGED <<varsL, varsS, varsR>>
    \/ \E k \in Keys : SupFail(k) /\ UNCHANGED <<varsL, varsS, varsR>>
    \/ \E k \in Keys : EngineBestmove(k) /\ UNCHANGED <<varsL, varsS, varsR>>
    \/ \E k \in Keys : EngineDie(k) /\ UNCHANGED <<varsL, varsS, varsR>>

SpecProc == InitProc /\ [][NextProc]_vars

\* The async runtime keeps polling the task that runs stop(): every phase of
\* the staged stop ends after a bounded wait.
FairSpecProc == SpecProc /\ WF_vars(StopStep /\ UNCHANGED <<varsL, varsS, varsR>>)


InitLegacy == InitProcVars /\ InitLegacyVars /\ InitSessionVars /\ InitRestVars

\* The commands of chess/commands.rs and get_best_moves over the whole registry,
\* with engines that stay silent.
NextLegacy ==
    \/ \E k \in Keys, o \in EngineOptions, m \in GoModes : GetBestMovesNew(k, o, m) /\ UNCHANGED <<varsP, varsS, varsR>>
    \/ \E k \in Keys, o \in EngineOptions, m \in GoModes : GetBestMovesReuse(k, o, m) /\ UNCHANGED <<varsP, varsS, varsR>>
    \/ \E k \in Keys : EngineExit(k) /\ UNCHANGED <<varsP, varsS, varsR>>
    \/ \E k \in Keys : ReaderEnd(k) /\ UNCHANGED <<varsP, varsS, varsR>>
    \/ \E tab \in Tabs : chess_kill_engines(tab) /\ UNCHANGED <<varsP, varsS, varsR>>
    \/ \E k \in Keys : chess_kill_engine(k) /\ UNCHANGED <<varsP, varsS, varsR>>
    \/ \E k \in Keys : chess_stop_engine(k) /\ UNCHANGED <<varsP, varsS, varsR>>

SpecLegacy == InitLegacy /\ [][NextLegacy]_vars

\* One engine of one tab, with the lines its reader task handles.
ReaderKey == <<TabA, "sf">>

NextReader ==
    \/ \E o \in EngineOptions, m \in GoModes : GetBestMovesNew(ReaderKey, o, m) /\ UNCHANGED <<varsP, varsS, varsR>>
    \/ \E o \in EngineOptions, m \in GoModes : GetBestMovesReuse(ReaderKey, o, m) /\ UNCHANGED <<varsP, varsS, varsR>>
    \/ \E d \in 1..MaxDepth, n \in 1..MaxMultiPV : ReaderInfo(ReaderKey, d, n) /\ UNCHANGED <<varsP, varsS, varsR>>
    \/ ReaderBestMove(ReaderKey) /\ UNCHANGED <<varsP, varsS, varsR>>
    \/ LimRefill(ReaderKey) /\ UNCHANGED <<varsP, varsS, varsR>>
    \/ EngineExit(ReaderKey) /\ UNCHANGED <<varsP, varsS, varsR>>
    \/ ReaderEnd(ReaderKey) /\ UNCHANGED <<varsP, varsS, varsR>>
    \/ chess_kill_engine(ReaderKey) /\ UNCHANGED <<varsP, varsS, varsR>>
    \/ chess_stop_engine(ReaderKey) /\ UNCHANGED <<varsP, varsS, varsR>>

SpecReader == InitLegacy /\ [][NextReader]_vars

\* The state start_analysis leaves: the engine analysing, the registry filled,
\* the supervisor spawned with a fresh handler and event manager.
InitSession ==
    /\ processes = [k \in Keys |-> IF k = SessionKey
                                    THEN [NewProcess EXCEPT !.state = "Analyzing",
                                                            !.searching = TRUE]
                                    ELSE NoProc]
    /\ analysis_handlers = {SessionKey}
    /\ communication_handles = {SessionKey}
    /\ sup = [k \in Keys |-> IF k = SessionKey THEN "running" ELSE "none"]
    /\ lock = [k \in Keys |-> "free"]
    /\ lastTrans = [from |-> "Idle", to |-> "Analyzing", err |-> "Ok", after |-> "Analyzing"]
    /\ api = [pc |-> "done", op |-> "start_analysis", key |-> SessionKey, tab |-> TabA,
              todo |-> {}, affected |-> {}, result |-> "Ok", found |-> FALSE, path |-> "-",
              werr |-> "-", stopRes |-> "-", prevOp |-> "none", prevKey |-> NoKey,
              prevOk |-> FALSE]
    /\ InitLegacyVars
    /\ InitRestVars
    /\ \E n \in 1..MaxMultiPV, m \in GoModes : NewSession(n, m)

NextSession ==
    \/ \E d \in 1..MaxDepth, n \in 1..MaxMultiPV : LoopInfo(d, n)
    \/ LoopBestMove
    \/ LoopIdle
    \/ \E b \in BOOLEAN : LoopReadError(b)
    \/ LoopAbort
    \/ StdoutCloses
    \/ RateRefill

SpecSession == InitSession /\ [][NextSession]_vars

\* The supervisor task is scheduled as long as it has an iteration to run.
FairSpecSession == SpecSession /\ WF_vars(NextSession)

-----------------------------------------------------------------------------
(* Properties of SpecProc                                                  *)

InitBlob ==
    /\ InitProcVars /\ InitLegacyVars /\ InitSessionVars /\ InitSearchVars
    /\ InitAnalysisVars /\ InitExtraVars
    /\ moves \in Blobs
    /\ build \in Builds
    /\ stream = [ms |-> MoveStream_new(ChessDefault), yielded |-> <<>>]
    /\ dbcall = NoDbCall

NextBlob ==
    \/ StreamNext /\ UNCHANGED <<varsP, varsL, varsS, varsQ, varsA, varsX, varsY>>
    \/ \E q \in Queries : CallGetMoveAfterMatch(q) /\ UNCHANGED <<varsP, varsL, varsS, varsQ, varsA, varsX, varsY>>
    \/ \E q \in Queries : CallGetMoveAfterMatchFast(q) /\ UNCHANGED <<varsP, varsL, varsS, varsQ, varsA, varsX, varsY>>

SpecBlob == InitBlob /\ [][NextBlob]_vars

InitSearch ==
    /\ InitProcVars /\ InitLegacyVars /\ InitSessionVars /\ InitDbVars
    /\ InitAnalysisVars /\ InitExtraVars
    /\ archive \in Archives
    /\ line_cache = NoEntry
    /\ new_request = NEW_REQUEST_PERMITS
    /\ searches = [t \in Invocations |-> NoSearch]

NextSearch ==
    \/ \E t \in Invocations, l \in Limits, p \in BOOLEAN :
           SearchPosition(t, l, p) /\ UNCHANGED <<varsP, varsL, varsS, varsD, varsA, varsX, varsY>>
    \/ \E t \in Invocations : SearchAcquire(t) /\ UNCHANGED <<varsP, varsL, varsS, varsD, varsA, varsX, varsY>>
    \/ \E t \in Invocations : ProcessGame(t) /\ UNCHANGED <<varsP, varsL, varsS, varsD, varsA, varsX, varsY>>
    \/ \E t \in Invocations : SearchFinish(t) /\ UNCHANGED <<varsP, varsL, varsS, varsD, varsA, varsX, varsY>>
    \/ \E t \in Invocations : SearchLoadError(t) /\ UNCHANGED <<varsP, varsL, varsS, varsD, varsA, varsX, varsY>>
    \/ \E t \in Invocations : SearchGamesError(t) /\ UNCHANGED <<varsP, varsL, varsS, varsD, varsA, varsX, varsY>>
    \/ IsPositionInDb /\ UNCHANGED <<varsP, varsL, varsS, varsD, varsA, varsX, varsY>>

SpecSearch == InitSearch /\ [][NextSearch]_vars

InitAnalysis ==
    /\ InitProcVars /\ InitLegacyVars /\ InitSessionVars /\ InitDbVars
    /\ InitSearchVars /\ InitAnalysisVars /\ InitExtraVars

NextAnalysis ==
    \/ \E a \in Analyzers, n \in 1..MaxPositions, ok \in BOOLEAN :
           AnalyzeBegin(a, n, ok) /\ UNCHANGED <<varsP, varsL, varsS, varsD, varsQ, varsX, varsY>>
    \/ \E o \in Outcomes :
           AnalyzePositionEngine(o) /\ UNCHANGED <<varsP, varsL, varsS, varsD, varsQ, varsX, varsY>>
    \/ \E o \in Outcomes :
           AnalyzePositionChess(o) /\ UNCHANGED <<varsP, varsL, varsS, varsD, varsQ, varsX, varsY>>
    \/ \E ok \in BOOLEAN : AnalyzeEnd(ok) /\ UNCHANGED <<varsP, varsL, varsS, varsD, varsQ, varsX, varsY>>

SpecAnalysis == InitAnalysis /\ [][NextAnalysis]_vars

InitQueue ==
    /\ InitProcVars /\ InitLegacyVars /\ InitSessionVars /\ InitDbVars
    /\ InitSearchVars /\ InitAnalysisVars /\ InitExtraVars

NextQueue ==
    \/ \E force \in BOOLEAN, ok \in BOOLEAN, more \in BOOLEAN :
           QueueEmit(force, ok, more) /\ UNCHANGED <<varsM, reported, handshake, config, reach>>
    \/ QueueFlush /\ UNCHANGED <<varsM, reported, handshake, config, reach>>
    \/ QueueRefill /\ UNCHANGED <<varsM, reported, handshake, config, reach>>

SpecQueue == InitQueue /\ [][NextQueue]_vars

InitProgress == InitQueue

NextProgress ==
    \E g \in GoModeTargets, d \in 0..MaxReported, n \in 0..MaxReported, e \in Elapsed :
        HandleInfoProgress(g, d, n, e) /\ UNCHANGED <<varsM, emitter, handshake, config, reach>>

SpecProgress == InitProgress /\ [][NextProgress]_vars

NextInit ==
    \/ \E m \in Modules, w \in {"ok", "io", "pipe"} :
           HandshakeBegin(m, w) /\ UNCHANGED <<varsM, emitter, reported, config, reach>>
    \/ \E l \in EngineLines, w \in {"ok", "io", "pipe"} :
           HandshakeLine(l, w) /\ UNCHANGED <<varsM, emitter, reported, config, reach>>
    \/ HandshakeClose /\ UNCHANGED <<varsM, emitter, reported, config, reach>>
    \/ HandshakeDeadline /\ UNCHANGED <<varsM, emitter, reported, config, reach>>

SpecInit == InitQueue /\ [][NextInit]_vars

NextConfigure ==
    \E o \in EngineOptions, ok \in BOOLEAN :
        Configure(o, ok) /\ UNCHANGED <<varsM, emitter, reported, handshake, reach>>

SpecConfigure == InitQueue /\ [][NextConfigure]_vars

NextReach ==
    \E target \in Boards, exact \in BOOLEAN, board \in Boards :
        ReachTest(target, exact, board)
            /\ UNCHANGED <<varsM, emitter, reported, handshake, config>>

SpecReach == InitQueue /\ [][NextReach]_vars

NextMatch ==
    \/ \E query \in Bitboards : PartialQuery(query) /\ UNCHANGED <<varsN, fold, ckpt, reuse>>
    \/ \E tested \in Bitboards : PartialTest(tested) /\ UNCHANGED <<varsN, fold, ckpt, reuse>>
    \/ \E square \in Squares, piece \in Pieces :
           PartialTestMore(square, piece) /\ UNCHANGED <<varsN, fold, ckpt, reuse>>

SpecMatch == InitQueue /\ [][NextMatch]_vars

NextFold ==
    \/ \E n \in 1..MaxParGames : \E games \in [1..n -> ParGames] :
           FoldBegin(games) /\ UNCHANGED <<varsN, pmatch, ckpt, reuse>>
    \/ \E g \in 1..MaxParGames, locked \in BOOLEAN :
           WorkerLookup(g, locked) /\ UNCHANGED <<varsN, pmatch, ckpt, reuse>>
    \/ \E g \in 1..MaxParGames : WorkerInsert(g) /\ UNCHANGED <<varsN, pmatch, ckpt, reuse>>
    \/ FoldCollect /\ UNCHANGED <<varsN, pmatch, ckpt, reuse>>

SpecFold == InitQueue /\ [][NextFold]_vars

NextCheckpoints ==
    \/ \E total \in ArchiveSizes, plies \in 0..MaxPlies, ok \in BOOLEAN :
           CheckpointsBegin(total, plies, ok) /\ UNCHANGED <<varsN, pmatch, fold, reuse>>
    \/ \E ok \in BOOLEAN : CheckpointsBatch(ok) /\ UNCHANGED <<varsN, pmatch, fold, reuse>>
    \/ CheckpointsEnd /\ UNCHANGED <<varsN, pmatch, fold, reuse>>

SpecCheckpoints == InitQueue /\ [][NextCheckpoints]_vars

NextReuse ==
    \/ \E fen \in Fens : ReuseNew(fen) /\ UNCHANGED <<varsN, pmatch, fold, ckpt>>
    \/ \E fen \in Fens : ReuseStop(fen) /\ UNCHANGED <<varsN, pmatch, fold, ckpt>>
    \/ ReuseConfigure /\ UNCHANGED <<varsN, pmatch, fold, ckpt>>
    \/ EngineCommand /\ UNCHANGED <<varsN, pmatch, fold, ckpt>>
    \/ EngineSearchEnds /\ UNCHANGED <<varsN, pmatch, fold, ckpt>>
    \/ ReuseBestMove /\ UNCHANGED <<varsN, pmatch, fold, ckpt>>

SpecReuse == InitQueue /\ [][NextReuse]_vars


\* The transitions section 3 of the specification allows.
AllowedTransitions ==
    {<<"Idle", "Analyzing">>, <<"Analyzing", "Stopping">>, <<"Stopping", "Idle">>,
     <<"Analyzing", "Idle">>} \cup {<<s, "Terminated">> : s \in EngineState}

\* C1: every change of an EngineProcess's state is one of Idle->Analyzing,
\* Analyzing->Stopping, Stopping->Idle, Analyzing->Idle, any->Terminated; every
\* other request fails with InvalidTransition and leaves the state unchanged.
C1_OnlyValidTransitions ==
    [][/\ \A k \in Keys :
            (processes[k] # NoProc /\ processes'[k] # NoProc
               /\ processes'[k].state # processes[k].state)
            => <<processes[k].state, processes'[k].state>> \in AllowedTransitions
       /\ lastTrans' # NoTrans =>
            IF <<lastTrans'.from, lastTrans'.to>> \in AllowedTransitions
            THEN lastTrans'.err = "Ok" /\ lastTrans'.after = lastTrans'.to
            ELSE lastTrans'.err = "InvalidTransition" /\ lastTrans'.after = lastTrans'.from
       /\ (lastTrans' # lastTrans /\ lastTrans'.err # "Ok") =>
            \A k \in Keys : (processes[k] # NoProc /\ processes'[k] # NoProc)
                               => processes'[k].state = processes[k].state
      ]_vars

\* C1 witness: bestmove read after a forced stop asked for Idle->Idle and was refused.
C1_Witness ==
    /\ api.pc = "done" /\ api.op = "stop_engine" /\ api.path = "forced"
    /\ lastTrans = [from |-> "Idle", to |-> "Idle", err |-> "InvalidTransition", after |-> "Idle"]
    /\ processes[api.key].state = "Idle"

InStop == api.pc \in {"st_begin", "st_send", "st_fallback", "st_result"}

\* C2: stop invoked on an Analyzing engine eventually returns Ok with the state
\* Idle or Terminated, whatever the engine does (no bestmove, broken pipe,
\* subprocess gone); StopTimeout never reaches the caller.
C2_StopConcludes ==
    /\ (api.pc = "st_begin" /\ processes[api.key].state = "Analyzing")
         ~> (~InStop /\ api.stopRes = "Ok"
               /\ processes[api.key].state \in {"Idle", "Terminated"})
    /\ [](api.stopRes # "StopTimeout" /\ api.result # "StopTimeout")

\* C2 witness: a stop that ran into the overall deadline has returned Ok, the
\* engine still searching (it never answered).
C2_Witness ==
    /\ api.pc = "done" /\ api.op = "stop_engine" /\ api.path = "forced"
    /\ api.result = "Ok"
    /\ processes[api.key].state = "Idle" /\ processes[api.key].searching

Registered(k) ==
    processes[k] # NoProc \/ k \in analysis_handlers \/ k \in communication_handles

\* C7: kill_engine is idempotent: it returns Ok and leaves no process, handler
\* or supervisor handle for the key, also when called twice in a row or for a
\* key that was never registered.
C7_KillEngineIdempotent ==
    (api.pc = "done" /\ api.op = "kill_engine")
        => (api.result = "Ok" /\ ~Registered(api.key))

\* C7 witness: the second of two consecutive kill_engine calls for a key whose
\* supervisor the first call aborted has returned.
C7_Witness ==
    /\ api.pc = "done" /\ api.op = "kill_engine" /\ api.result = "Ok"
    /\ api.prevOp = "kill_engine" /\ api.prevKey = api.key /\ api.prevOk
    /\ sup[api.key] = "aborted"

AffectedKeys == IF api.op = "kill_engines_for_tab" THEN api.affected ELSE {api.key}

\* C9 as stated: stop_engine, kill_engine and kill_engines_for_tab each end
\* with the affected entries removed and their supervisor tasks aborted.
C9_AllThreeRemove ==
    (api.pc = "done" /\ api.op \in {"stop_engine", "kill_engine", "kill_engines_for_tab"})
        => \A k \in AffectedKeys : ~Registered(k) /\ sup[k] # "running"

\* C9 amended: kill_engine and kill_engines_for_tab end with the affected
\* entries removed and no supervisor of theirs left running; stop_engine leaves
\* the entry of a registered key in the registry.
C9_KillsRemoveStopKeeps ==
    /\ (api.pc = "done" /\ api.op \in {"kill_engine", "kill_engines_for_tab"})
          => \A k \in AffectedKeys : ~Registered(k) /\ sup[k] # "running"
    /\ (api.pc = "done" /\ api.op = "stop_engine" /\ api.found)
          => /\ processes[api.key] # NoProc
             /\ api.key \in analysis_handlers
             /\ api.key \in communication_handles

\* C9 witness: kill_engines_for_tab has returned after aborting a supervisor.
C9_Witness ==
    /\ api.pc = "done" /\ api.op = "kill_engines_for_tab"
    /\ \E k \in api.affected : sup[k] = "aborted" /\ processes[k] = NoProc

\* C10: start_analysis followed by stop_engine: the call returns Ok, the engine
\* state is Idle and the registry still holds the entry.
C10_StopLeavesIdleEntry ==
    (api.pc = "done" /\ api.op = "stop_engine"
       /\ api.prevOp = "start_analysis" /\ api.prevOk /\ api.prevKey = api.key)
        => /\ api.result = "Ok"
           /\ processes[api.key] # NoProc
           /\ processes[api.key].state = "Idle"
           /\ api.key \in analysis_handlers
           /\ api.key \in communication_handles

\* C10 witness: the engine never answered stop (it is alive and still
\* searching) and stop_engine returned through the forced transition.
C10_Witness ==
    /\ api.pc = "done" /\ api.op = "stop_engine" /\ api.result = "Ok"
    /\ api.prevOp = "start_analysis" /\ api.prevOk /\ api.prevKey = api.key
    /\ api.path = "forced"
    /\ processes[api.key].alive /\ processes[api.key].searching
    /\ sup[api.key] = "running"

\* C11: stop is idempotent: called on an engine that is not Analyzing it
\* returns Ok at once, without entering the phases that write "stop" to the
\* engine, and leaves the process as it was.
C11_StopIdempotent ==
    [][(api.pc = "st_begin" /\ api'.pc # "st_begin"
          /\ processes[api.key].state # "Analyzing")
        => /\ api'.stopRes = "Ok"
           /\ api'.pc \notin {"st_send", "st_fallback", "st_result"}
           /\ processes'[api.key] = processes[api.key]
      ]_vars

\* C11 witness: a second stop_engine right after a first one has returned Ok
\* through the early return, the engine Idle.
C11_Witness ==
    /\ api.pc = "done" /\ api.op = "stop_engine" /\ api.result = "Ok"
    /\ api.prevOp = "stop_engine" /\ api.prevKey = api.key /\ api.prevOk
    /\ api.path = "notrunning"
    /\ processes[api.key].state = "Idle"

-----------------------------------------------------------------------------
(* Properties of SpecReader and SpecLegacy                                 *)

\* C3: every BestLines payload, the final one included, carries between 1 and
\* real_multipv lines, and all its lines have the same depth.
C3_PayloadLines ==
    lpayload # NoPayload =>
        /\ Len(lpayload.best_lines) >= 1
        /\ Len(lpayload.best_lines) <= lpayload.real_multipv
        /\ \A i, j \in 1..Len(lpayload.best_lines) :
              lpayload.best_lines[i] = lpayload.best_lines[j]

\* C8: kill_engines(tab) removes exactly the entries whose tab component equals
\* tab; entries of other tabs, also of tabs that have tab as a prefix, remain.
C8_ExactTabOnly ==
    lcall.op = "kill_engines" =>
        lcall.after = {k \in lcall.before : k[1] # lcall.tab}

-----------------------------------------------------------------------------
(* Properties of SpecSession                                               *)

\* The depth of a set of lines or of a payload: that of its first line.
DepthOf(ls) == IF Len(ls) = 0 THEN 0 ELSE ls[1]

\* C4: for every real_multipv >= 1 the sets process_info_message returns have
\* non-decreasing depths, and last_depth never decreases.
C4_DepthsNeverDecrease ==
    [][/\ handler'.last_depth >= handler.last_depth
       /\ (Len(handler.last_best_moves) > 0 /\ Len(handler'.last_best_moves) > 0)
             => DepthOf(handler'.last_best_moves) >= DepthOf(handler.last_best_moves)
      ]_vars

\* C5: payloads reach the UI in non-decreasing depth order: a payload that was
\* queued is never delivered after a payload of greater depth produced later.
C5_QueuedNeverOvertaken ==
    \A i, j \in 1..Len(delivered) :
        i < j => ~(/\ delivered[i].id > delivered[j].id
                   /\ DepthOf(delivered[i].best_lines) > DepthOf(delivered[j].best_lines))

\* C6: a session whose supervisor read bestmove has delivered exactly one
\* payload with progress 100, and that payload is the last one delivered.
C6_OneFinalPayloadLast ==
    loop.status = "finished" =>
        /\ Len(delivered) > 0
        /\ delivered[Len(delivered)].progress = Full
        /\ Cardinality({i \in 1..Len(delivered) : delivered[i].progress = Full}) = 1

(* C12: if get_move_after_match returns Some(m), some position pos_i of    *)
(* the game's main line (pos_0 the start position) matches the query and   *)
(* m is the SAN of main-line move i+1, or "*" if the main line ends at     *)
(* ply i.                                                                  *)
C12_SomeIsMoveAfterMatch ==
    (dbcall.op = "get_move_after_match" /\ dbcall.res \notin {"None", "panic", "hang"})
    => LET main == extract_main_line_moves(moves)
           pos == decode_game_positions(moves)
       IN \E i \in 0..Len(main) :
              /\ matches(dbcall.query, pos[i + 1])
              /\ dbcall.res = IF i < Len(main) THEN main[i + 1] ELSE "*"

(* C13: when the query matches the starting position, the next-move lookup *)
(* (either path) returns the first main-line move, or "*" when the game    *)
(* has no main-line move (empty blob, or no move can be decoded); it never *)
(* returns None.                                                           *)
C13_StartMatchReturnsFirstMove ==
    (/\ dbcall.op \in {"get_move_after_match", "get_move_after_match_fast"}
     /\ matches(dbcall.query, ChessDefault))
    => LET main == extract_main_line_moves(moves)
       IN dbcall.res = IF main = <<>> THEN "*" ELSE main[1]

(* C14: every position reached from the start position by legal moves has *)
(* material no greater than the start's for both colours and a pawn_home   *)
(* contained in the start's; consequently no position of a game that       *)
(* matches the query comes after a ply at which is_reachable_by is false.  *)
C14_PruningHasNoFalseNegatives ==
    /\ LET at == get_material_count(stream.ms.position)
           start == get_material_count(ChessDefault)
       IN /\ at.white <= start.white
          /\ at.black <= start.black
          /\ get_pawn_home(stream.ms.position) \subseteq get_pawn_home(ChessDefault)
    /\ dbcall.op = "get_move_after_match_fast"
       => LET pos == decode_game_positions(moves)
          IN \A j \in 1..Len(pos) : \A i \in 1..j :
                 matches(dbcall.query, pos[j])
                 => is_reachable_by(dbcall.query, get_material_count(pos[i]),
                                    get_pawn_home(pos[i]))

(* C15: for every byte sequence, each call of MoveStream::next_move        *)
(* terminates and never panics, and an iteration never goes back in the    *)
(* blob: it ends at the end of the blob, at the first illegal move index   *)
(* or at a COMMENT whose header is truncated or whose declared length      *)
(* (any value a header can hold) exceeds the rest of the blob.             *)
C15_NextMoveTerminatesNoPanic ==
    [][(stream'.ms # stream.ms)
       => /\ stream'.ms.status \in {"some", "none"}
          /\ stream'.ms.index >= stream.ms.index
      ]_vars

(* C16: on a well-formed blob the moves the main-line iterator produces    *)
(* are exactly the top-level moves in order, as extract_main_line_moves    *)
(* returns them: no byte of a variation, a comment or a NAG, nested ones   *)
(* included, is decoded as a main-line move.                               *)
C16_IteratorYieldsMainLine ==
    WellFormed(moves, 0, 0)
    => LET main == extract_main_line_moves(moves)
           n == Len(stream.yielded)
       IN /\ n <= Len(main)
          /\ stream.yielded = SubSeq(main, 1, n)
          /\ stream.ms.status = "none" => n = Len(main)

\* The ids of the games of the archive in which the position is found, in the
\* order of the scan.
MatchedIds ==
    LET S == {i \in 1..Len(archive) : archive[i]}
    IN [i \in 1..Cardinality(S) |->
            CHOOSE x \in S : Cardinality({y \in S : y < x}) = i - 1]

(* C17: a search_position call answered from the cache returns the         *)
(* statistics and the games the same call returns with an empty cache: all *)
(* matched games counted, and min(limit, 1000, matched) games, also when   *)
(* an earlier call asked for fewer games.                                  *)
C17_CacheHitEqualsFreshSearch ==
    \A t \in Invocations :
        (searches[t].pc = "done" /\ searches[t].hit)
        => /\ searches[t].result.kind = "Ok"
           /\ searches[t].result.openings = Len(MatchedIds)
           /\ searches[t].result.games
                  = take(MatchedIds, game_details_limit(searches[t].limit))

(* C18: a search superseded while it scans ends with the SearchStopped     *)
(* error; its partial statistics and games are neither returned as a       *)
(* result nor stored in the cache, so a later search returns a full result.*)
C18_StoppedSearchNotPublished ==
    /\ \A t \in Invocations :
           (searches[t].pc = "done" /\ searches[t].stopped)
           => (searches[t].result.kind = "Err"
               /\ searches[t].result.err = "SearchStopped")
    /\ line_cache.present => line_cache.openings = Len(MatchedIds)

(* C19: every invocation of search_position emits the final progress event *)
(* (progress = 100, finished = true) before it returns, on every exit path: *)
(* success, cache hit, empty archive and error.                            *)
C19_FinalProgressOnEveryExit ==
    \A t \in Invocations : searches[t].pc = "done" => searches[t].finished

(* C20: once the list of positions is built, analyze_game returns Ok with  *)
(* one MoveAnalysis per position: a failure confined to one position (its  *)
(* engine process, its configuration, the start of its search, the reading *)
(* of its output) gives that position a default MoveAnalysis and the       *)
(* remaining positions are still analysed.                                 *)
C20_OneAnalysisPerPosition ==
    (analyze.pc = "done" /\ analyze.result \notin {"begin", "emit", "end"})
    => /\ analyze.result = "Ok"
       /\ Len(analyze.analysis) = analyze.total
       /\ \A k \in 1..analyze.total :
              analyze.outcomes[k] # "ok" => analyze.analysis[k] = "default"

\* C21: an event queue never holds more than its capacity of 10 events, and
\* the event a full queue evicts is the one produced earliest among those
\* pending, also after flush attempts stopped by the rate gate or the sink.
C21_BoundedDropOldest ==
    /\ Len(emitter.em.queue) <= max_queue_size
    /\ emitter.dropped # 0 =>
           \A i \in 1..Len(emitter.pending) : emitter.dropped <= emitter.pending[i]

\* C22: last_progress and the progress of every BestLines payload lie in
\* [0, 100], for every go mode and every reported depth, node count and
\* elapsed time, reports beyond the target and a target of 0 included.
C22_ProgressInRange ==
    reported.sent =>
        /\ reported.progress.class = "finite"
        /\ reported.progress.value >= 0 /\ reported.progress.value <= Full
        /\ reported.last_progress = reported.progress

C24_FailedSupervisorCleanedUp ==
    \A k \in Keys :
        sup[k] = "failed" =>
            /\ processes[k] = NoProc
            /\ k \notin analysis_handlers
            /\ k \notin communication_handles

\* C25: if the engine answers stop with bestmove while stop_engine is
\* waiting, the supervisor's bestmove handling makes the Stopping -> Idle
\* transition during the wait and stop returns through the quick path,
\* without the fallback wait and without a forced transition.
C25_BestmoveEndsStopQuickly ==
    (/\ api.op = "stop_engine" /\ api.pc = "done" /\ api.key # NoKey
     /\ api.path \in {"quick", "fallback", "timeout", "forced"}
     /\ processes[api.key].out = "bestmove")
    => api.path = "quick"

C27_FailedStartStaysIdle ==
    (api.op = "start_analysis" /\ api.pc = "done") => api.result # "InvalidState"

\* C28: EngineProcess::new returns an Idle engine only after uciok and then
\* readyok were received, isready being sent only after uciok; when the
\* handshake misses its deadline or the engine's output closes first the
\* subprocess is killed and an error returned, InitTimeout for the deadline.
C28_HandshakeOrKill ==
    LET h == handshake
    IN /\ "isready" \in {h.sent[i] : i \in 1..Len(h.sent)} =>
              "uciok" \in {h.lines[i] : i \in 1..Len(h.lines)}
       /\ (h.pc = "done" /\ h.result = "Idle") =>
              /\ h.sent = <<"uci", "isready">>
              /\ h.child = "running"
              /\ \E i, j \in 1..Len(h.lines) :
                     i < j /\ h.lines[i] = "uciok" /\ h.lines[j] = "readyok"
       /\ (h.pc = "done" /\ h.cause \in {"deadline", "closed"}) =>
              /\ h.child = "killed"
              /\ h.result # "Idle"
              /\ h.cause = "deadline" => h.result = "InitTimeout"

\* C29: configure sends setoption only for options whose value differs from
\* what the engine was last given and position only if FEN or moves changed:
\* the second of two consecutive configure calls with identical options
\* sends no command, also when the requested MultiPV is clamped.
C29_ConfigureIdempotent ==
    (/\ config.result = "Ok" /\ config.prev_result = "Ok"
     /\ config.request = config.prev)
    => config.sent = <<>>

\* C30: for every Exact query with target material t and target pawn_home h,
\* and every current material m and pawn_home p, can_reach(m, p) and
\* is_reachable_by(m, p) are both true exactly when t.white <= m.white,
\* t.black <= m.black and every bit set in h is also set in p.
C30_ReachabilityIffDominated ==
    (reach.tested /\ reach.query.kind = "Exact")
        => LET stated == /\ reach.query.material.white <= reach.material.white
                         /\ reach.query.material.black <= reach.material.black
                         /\ reach.query.pawn_home \subseteq reach.pawn_home
           IN /\ reach.can_reach = stated
              /\ reach.is_reachable_by = stated

\* C31: a Partial query matches a position if and only if every non-empty
\* query plane (kings, queens, rooks, bishops, knights, pawns, white, black)
\* is a subset of the corresponding plane of the tested position; hence the
\* empty query matches every position, and a position that matches still
\* matches after pieces are added to it.
C31_PartialMatchIffPlanesContained ==
    pmatch.pc = "tested"
        => /\ pmatch.result
                = (\A n \in Roles \cup Colors :
                       plane(pmatch.query, n) # {}
                           => plane(pmatch.query, n) \subseteq plane(pmatch.tested, n))
           /\ (pmatch.query = EmptyBoard => pmatch.result)
           /\ (pmatch.added /\ pmatch.before => pmatch.result)

\* A non-empty query has matched a position, and still matches it after a
\* piece was added; and some query has failed to match.
C31_Witness ==
    /\ pmatch.pc = "tested" /\ pmatch.query # EmptyBoard
    /\ pmatch.added /\ pmatch.before /\ pmatch.result

\* C32: for every move m in the statistics returned by a search, the white,
\* black and draw counts equal the number of scanned games that pass the
\* filters, whose next move after the match is m, and whose result is 1-0,
\* 0-1 and 1/2-1/2 respectively, for every interleaving of the parallel
\* workers; no matching game is lost or counted twice.
C32_StatisticsCountEveryGameOnce ==
    fold.phase = "collected"
        => \A m \in SanMoves :
               LET with(r) == Cardinality({g \in DOMAIN fold.games :
                                  fold.games[g].move = m /\ fold.games[g].result = r})
               IN /\ fold.result[m].present
                      = (\E g \in DOMAIN fold.games : fold.games[g].move = m)
                  /\ fold.result[m].white = with("1-0")
                  /\ fold.result[m].black = with("0-1")
                  /\ fold.result[m].draw = with("1/2-1/2")

\* C33: after build_position_checkpoints returns Ok, every game in the
\* archive has a checkpoint row for ply 0 and one for every main-line ply
\* that is a positive multiple of the stride, for any number of games in
\* the archive and any positive stride.
C33_EveryGameHasCheckpoints ==
    (ckpt.pc = "done" /\ ckpt.result = "Ok")
        => \A game_id \in 1..ckpt.total_games :
               /\ game_id <= ckpt.last_id
               /\ 0 \in ckpt.rows
               /\ \A ply \in 1..ckpt.plies :
                      ply % CHECKPOINT_STRIDE = 0 => ply \in ckpt.rows

\* C34: a SQL failure while loading games aborts the search: search_position
\* returns an error to the caller, and it neither returns an empty result
\* as if nothing matched nor stores such a result in the cache.
C34_LoadFailureAbortsSearch ==
    \A t \in Invocations :
        (searches[t].pc = "done" /\ searches[t].failed # "-")
            => /\ searches[t].result.kind = "Err"
               /\ ~searches[t].cached

\* C35: bestmove is the terminal event of its own session only: a BestLines
\* payload with progress = 100 for a position (fen, moves) is emitted only
\* after the engine produced bestmove for the search of that position; when
\* get_best_moves replaces the analysis on an already registered engine, the
\* bestmove answering the `stop` of the previous search is never reported as
\* the final result of the new position.
C35_BestmoveEndsItsOwnSession ==
    reuse.final.fen # "-" => reuse.final.fen = reuse.final.of

\* C36: two searches admitted at the same time (both semaphore permits in
\* use) each complete with the result they would produce when run alone:
\* neither skips games nor ends with SearchStopped merely because no permit
\* is currently available.
C36_ConcurrentSearchesComplete ==
    \A t \in Invocations :
        LET s == searches[t]
        IN (s.pc = "done" /\ s.finished /\ s.failed = "-")
               => /\ ~s.stopped
                  /\ s.result.kind = "Ok"
                  /\ s.result.openings = Cardinality({g \in DOMAIN archive : archive[g]})

\* C37: the result of search_position does not depend on earlier
\* is_position_in_db calls for the same query and archive: every entry in
\* the shared result cache equals what a fresh full scan for that key would
\* produce, so a novelty check never makes a later search return empty or
\* sampled statistics.
C37_NoveltyCheckKeepsCacheExact ==
    /\ (line_cache.present /\ line_cache.sampled)
           => line_cache.openings = Cardinality({g \in DOMAIN archive : archive[g]})
    /\ \A t \in Invocations :
           (searches[t].pc = "done" /\ searches[t].hit /\ line_cache.sampled)
               => searches[t].result.openings
                      = Cardinality({g \in DOMAIN archive : archive[g]})

\* C38: no engine subprocess is orphaned: every subprocess spawned by
\* analyze_game (the initial engine and each per-position engine) or by a
\* start_analysis call that ends in an error has been killed or has exited
\* by the time the call returns, on success and on every error path.
C38_NoOrphanedSubprocess ==
    analyze.pc = "done" => analyze.live = 0

\* C39: if the engine's stdout closes (the engine exits or crashes) without
\* a bestmove, the supervisor loop eventually terminates instead of polling
\* the closed stream forever.
C39_ClosedStdoutEndsLoop ==
    loop.eof ~> loop.status # "running"

\* C40: when an engine's output stream ends, the reader task removes that
\* engine's entry from the shared engine registry, so the registry used by
\* get_best_moves, stop_engine and kill_engine never keeps a process whose
\* output has ended and whose reader task is over, and a later
\* get_best_moves for that key spawns a fresh engine.
C40_ReaderEndUnregisters ==
    \A k \in Keys :
        (engine_processes[k] # NoProc) => reader[k] \in {"running", "eof"}

====
